---- MODULE Spec2Model ----
(***************************************************************************)
(* Model of the client-side video pipeline of short-shot-spark:            *)
(* VideoProcessor (src/src/services/videoProcessor.ts, the "premium"       *)
(* revision) and the earlier revision with reframe settings                *)
(* (src/unnamed/part_003, here the "standard" revision).                   *)
(* The components around it, Index (src/unnamed/part_000), VideoUploader   *)
(* (src/unnamed/part_001) and the Dashboard, are modelled in the section   *)
(* "user interface".                                                       *)
(*                                                                         *)
(* JavaScript numbers are modelled as exact fractions <<n, d>> with        *)
(* d >= 0; d = 0 encodes the IEEE specials: <<1,0>> is Infinity,           *)
(* <<-1,0>> is -Infinity and <<0,0>> is NaN.  Rounding of binary floating  *)
(* point is not modelled.                                                  *)
(***************************************************************************)
EXTENDS Integers, Sequences, FiniteSets, TLC

(* ------------------------------ bounds -------------------------------- *)
\* largest number of clips the analysis yields (numClips of the source is 0..6)
MaxClips == 2
\* largest videoWidth / videoHeight in the geometry harness (besides 0 x 0)
MaxSource == 4
\* largest canvas side in the geometry harness (besides the table sizes)
MaxCanvas == 4
\* composite calls are counted up to this number
MaxCalls == 2
MaxCaptionHalves == 80
\* VideoUploader mounts in one session of the application
MaxUploads == 2

(* ------------------------------- state -------------------------------- *)
VARIABLES
  variant,      \* which revision of VideoProcessor is loaded
  mimeSupported, \* whether the browser's MediaRecorder accepts the requested mimeType
  pc,           \* position of the processVideo run
  options,      \* the options argument of processVideo
  video,        \* this.video: created, videoWidth, videoHeight
  canvas,       \* this.canvas: created, width, height
  ctx,          \* drawing state of this.ctx
  nClips,       \* clips.length after analyzeAndGenerateClips
  clips,        \* the clips returned by analyzeAndGenerateClips
  processed,    \* processedClips, in order
  progress,     \* the onProgress calls of the run, in order
  promise,      \* state of the promise returned by processVideo
  voiceAt,      \* clip whose voiceover is awaited (0: none)
  recorder,     \* per clip: the MediaRecorder made by its extraction
  loop,         \* per clip: state of its recordFrame chain
  timer,        \* per clip: state of its fallback setTimeout
  seeking,      \* a seek of this.video is in progress
  onseeked,     \* clip whose handler is installed as this.video.onseeked (0: none)
  frames,       \* composite calls made so far, counted up to MaxCalls
  lastDraw,     \* the latest composite call: inputs, rectangle, canvas calls
  firstDraw,    \* the first composite call of the run
  captionCall,  \* the latest call of the caption generator: duration, result
  currentView,  \* Index: 'landing', 'upload' or 'dashboard'
  uploadedVideos, \* Index: the videoData objects delivered so far, in order
  uploaders,    \* every VideoUploader mounted so far: its state and interval
  dashboard,    \* the Dashboard mounted last: its props, state and timer
  toasts        \* titles of the notifications raised so far

\* the state of the VideoProcessor and of its run
processorVars ==
  <<variant, mimeSupported, pc, options, video, canvas, ctx, nClips, clips,
    processed, progress, promise, voiceAt, recorder, loop, timer, seeking,
    onseeked, frames, lastDraw, firstDraw, captionCall>>

\* the state of the components Index, VideoUploader and Dashboard
uiVars == <<currentView, uploadedVideos, uploaders, dashboard, toasts>>

vars == <<processorVars, uiVars>>

(* ---------------------------- JS numbers ------------------------------ *)
Abs(x) == IF x < 0 THEN -x ELSE x
Sign(x) == IF x < 0 THEN -1 ELSE IF x > 0 THEN 1 ELSE 0

RECURSIVE GCD(_, _)
GCD(a, b) == IF b = 0 THEN a ELSE GCD(b, a % b)

\* the fraction n/d in lowest terms with a non-negative denominator
Frac(n, d) ==
  IF d = 0 THEN <<Sign(n), 0>>
  ELSE LET g == GCD(Abs(n), Abs(d))
           s == Sign(d)
       IN  <<(s * n) \div g, (s * d) \div g>>

Int2Num(i) == <<i, 1>>
NaN == <<0, 0>>
IsNaN(a) == a = NaN
IsFinite(a) == a[2] # 0

\* a / b
NumDiv(a, b) == Frac(a[1] * b[2], a[2] * b[1])
\* a * b
NumMul(a, b) == Frac(a[1] * b[1], a[2] * b[2])
\* a - b
NumSub(a, b) == Frac(a[1] * b[2] - b[1] * a[2], a[2] * b[2])
\* a + b
NumAdd(a, b) == Frac(a[1] * b[2] + b[1] * a[2], a[2] * b[2])
\* a > b (false when either side is NaN)
NumGt(a, b) == ~IsNaN(a) /\ ~IsNaN(b) /\ a[1] * b[2] > b[1] * a[2]
\* a >= b (false when either side is NaN)
NumGe(a, b) == ~IsNaN(a) /\ ~IsNaN(b) /\ (a = b \/ a[1] * b[2] > b[1] * a[2])
NumLe(a, b) == NumGe(b, a)
NumLt(a, b) == NumGt(b, a)
NumAbs(a) == <<Abs(a[1]), a[2]>>
\* Math.floor of a finite number
NumFloor(a) == a[1] \div a[2]

(* ------------------------- option vocabulary -------------------------- *)
Undefined == "undefined"
Qualities == {"HD", "FHD", "4K"}
AspectPresets == {"9:16", "16:9", "1:1", "4:5"}
FocusPolicies == {"center", "face", "action"}
\* values a caller can put in options.quality
QualityInputs == Qualities \cup {Undefined}
\* values of reframeSettings.focusPoint ("auto" stands for any other string)
FocusInputs == FocusPolicies \cup {"auto", Undefined}
\* options.reframeSettings left out by the caller
NoReframeSettings ==
  [present |-> FALSE, aspectRatio |-> Undefined, focusPoint |-> Undefined]
Variants == {"premium", "standard"}
\* <<videoWidth, videoHeight>> reported for the file of a processVideo run:
\* 0 x 0 (no video track), a landscape and a portrait frame
MetadataSizes == {<<0, 0>>, <<16, 9>>, <<9, 16>>}

(* ------------------------- lookup tables ------------------------------ *)
\* variant of Multiplier: the FHD case lost
MultiplierNoFHD(quality) ==
  IF quality = "4K" THEN Int2Num(2) ELSE Int2Num(1)

\* quality === '4K' ? 2 : quality === 'FHD' ? 1.5 : 1
Multiplier(quality) ==
  IF quality = "4K" THEN Int2Num(2)
  ELSE IF quality = "FHD" THEN Frac(3, 2)
  ELSE Int2Num(1)

Scaled(base, multiplier) == NumFloor(NumMul(Int2Num(base), multiplier))

getHighQualityCanvasDimensions(aspectRatio, quality) ==
  LET multiplier == Multiplier(quality)
  IN  CASE aspectRatio = "9:16" -> <<Scaled(720, multiplier), Scaled(1280, multiplier)>>
        [] aspectRatio = "16:9" -> <<Scaled(1280, multiplier), Scaled(720, multiplier)>>
        [] aspectRatio = "1:1" -> <<Scaled(1080, multiplier), Scaled(1080, multiplier)>>
        [] aspectRatio = "4:5" -> <<Scaled(1080, multiplier), Scaled(1350, multiplier)>>
        [] OTHER -> <<Scaled(720, multiplier), Scaled(1280, multiplier)>>

\* variant of getQualityBitrate: the 4K case lost
getQualityBitrateNo4K(quality) ==
  CASE quality = "FHD" -> 5000000
    [] quality = "HD" -> 3000000
    [] OTHER -> 5000000

getQualityBitrate(quality) ==
  CASE quality = "4K" -> 8000000
    [] quality = "FHD" -> 5000000
    [] quality = "HD" -> 3000000
    [] OTHER -> 5000000

getCanvasDimensions(aspectRatio) ==
  CASE aspectRatio = "9:16" -> <<720, 1280>>
    [] aspectRatio = "16:9" -> <<1280, 720>>
    [] aspectRatio = "1:1" -> <<1080, 1080>>
    [] OTHER -> <<720, 1280>>

\* options.quality || 'FHD'
QualityOrDefault(opts) ==
  IF opts.quality = Undefined THEN "FHD" ELSE opts.quality

\* options.reframeSettings?.aspectRatio || '9:16'
AspectOrDefault(opts) ==
  IF ~opts.reframeSettings.present THEN "9:16"
  ELSE opts.reframeSettings.aspectRatio

\* variant of FocusOrDefault: missing settings fall back to 'face'
FocusOrDefaultFace(reframeSettings) ==
  IF ~reframeSettings.present THEN "face"
  ELSE IF reframeSettings.focusPoint = Undefined THEN "face"
  ELSE reframeSettings.focusPoint

\* reframeSettings?.focusPoint || 'center'
FocusOrDefault(reframeSettings) ==
  IF ~reframeSettings.present THEN "center"
  ELSE IF reframeSettings.focusPoint = Undefined THEN "center"
  ELSE reframeSettings.focusPoint

(* --------------------------- reframe geometry ------------------------- *)
\* variants of IsWider: the comparison turned round, and >= for >
IsWiderFlipped(videoAspect, targetAspect) == NumGt(targetAspect, videoAspect)
IsWiderOrEqual(videoAspect, targetAspect) == NumGe(videoAspect, targetAspect)

\* if (videoAspect > targetAspect)
IsWider(videoAspect, targetAspect) == NumGt(videoAspect, targetAspect)

\* variant of OffsetXFor: the face bias mirrored (0.75 for 0.25, 0.7 for 0.3)
OffsetXForMirrored(revision, focusPoint, slack) ==
  IF revision = "premium"
  THEN CASE focusPoint = "face" -> NumMul(slack, Frac(75, 100))
         [] focusPoint = "action" -> NumMul(slack, Frac(35, 100))
         [] OTHER -> NumDiv(slack, Int2Num(2))
  ELSE CASE focusPoint = "face" -> NumMul(slack, Frac(7, 10))
         [] focusPoint = "action" -> NumMul(slack, Frac(4, 10))
         [] OTHER -> NumDiv(slack, Int2Num(2))

\* variant of OffsetXFor: the default case aligned at a quarter
OffsetXForQuarter(revision, focusPoint, slack) ==
  IF revision = "premium"
  THEN CASE focusPoint = "face" -> NumMul(slack, Frac(25, 100))
         [] focusPoint = "action" -> NumMul(slack, Frac(35, 100))
         [] OTHER -> NumDiv(slack, Int2Num(4))
  ELSE CASE focusPoint = "face" -> NumMul(slack, Frac(3, 10))
         [] focusPoint = "action" -> NumMul(slack, Frac(4, 10))
         [] OTHER -> NumDiv(slack, Int2Num(4))

\* the switch on focusPoint in the "wider" branch; slack = canvasWidth - drawWidth
OffsetXFor(revision, focusPoint, slack) ==
  IF revision = "premium"
  THEN CASE focusPoint = "face" -> NumMul(slack, Frac(25, 100))
         [] focusPoint = "action" -> NumMul(slack, Frac(35, 100))
         [] OTHER -> NumDiv(slack, Int2Num(2))
  ELSE CASE focusPoint = "face" -> NumMul(slack, Frac(3, 10))
         [] focusPoint = "action" -> NumMul(slack, Frac(4, 10))
         [] OTHER -> NumDiv(slack, Int2Num(2))

\* variant of OffsetYFor: the face bias written 1.5 for 0.15 (2 for 0.2)
OffsetYForOvershoot(revision, focusPoint, slack) ==
  IF revision = "premium"
  THEN CASE focusPoint = "face" -> NumMul(slack, Frac(15, 10))
         [] focusPoint = "action" -> NumMul(slack, Frac(25, 100))
         [] OTHER -> NumDiv(slack, Int2Num(2))
  ELSE CASE focusPoint = "face" -> NumMul(slack, Int2Num(2))
         [] focusPoint = "action" -> NumMul(slack, Frac(3, 10))
         [] OTHER -> NumDiv(slack, Int2Num(2))

\* the switch on focusPoint in the other branch; slack = canvasHeight - drawHeight
OffsetYFor(revision, focusPoint, slack) ==
  IF revision = "premium"
  THEN CASE focusPoint = "face" -> NumMul(slack, Frac(15, 100))
         [] focusPoint = "action" -> NumMul(slack, Frac(25, 100))
         [] OTHER -> NumDiv(slack, Int2Num(2))
  ELSE CASE focusPoint = "face" -> NumMul(slack, Frac(2, 10))
         [] focusPoint = "action" -> NumMul(slack, Frac(3, 10))
         [] OTHER -> NumDiv(slack, Int2Num(2))

\* variants of WiderDrawWidth: division for multiplication, and a width
\* that grows with the number of calls made before
WiderDrawWidthDivides(drawHeight, videoAspect) == NumDiv(drawHeight, videoAspect)
WiderDrawWidthZooming(drawHeight, videoAspect) ==
  NumAdd(NumMul(drawHeight, videoAspect), Int2Num(frames))

\* drawWidth = drawHeight * videoAspect
WiderDrawWidth(drawHeight, videoAspect) == NumMul(drawHeight, videoAspect)

\* drawHeight = drawWidth / videoAspect
TallerDrawHeight(drawWidth, videoAspect) == NumDiv(drawWidth, videoAspect)

\* the draw rectangle computed by drawHighQualityReframedVideo (premium)
\* and drawReframedVideo (standard)
Reframe(revision, videoWidth, videoHeight, canvasWidth, canvasHeight, reframeSettings) ==
  LET videoAspect == NumDiv(Int2Num(videoWidth), Int2Num(videoHeight))
      targetAspect == NumDiv(Int2Num(canvasWidth), Int2Num(canvasHeight))
      focusPoint == FocusOrDefault(reframeSettings)
  IN  IF IsWider(videoAspect, targetAspect)
      THEN LET drawHeight == Int2Num(canvasHeight)
               drawWidth == WiderDrawWidth(drawHeight, videoAspect)
           IN  [branch |-> "wider",
                drawWidth |-> drawWidth,
                drawHeight |-> drawHeight,
                offsetX |-> OffsetXFor(revision, focusPoint,
                                       NumSub(Int2Num(canvasWidth), drawWidth)),
                offsetY |-> Int2Num(0)]
      ELSE LET drawWidth == Int2Num(canvasWidth)
               drawHeight == TallerDrawHeight(drawWidth, videoAspect)
           IN  [branch |-> "taller",
                drawWidth |-> drawWidth,
                drawHeight |-> drawHeight,
                offsetX |-> Int2Num(0),
                offsetY |-> OffsetYFor(revision, focusPoint,
                                       NumSub(Int2Num(canvasHeight), drawHeight))]

(* ---------------------------- 2D context ------------------------------ *)
\* state of a CanvasRenderingContext2D after creation or a canvas resize
DefaultCtx ==
  [fillStyle |-> "#000000", imageSmoothingEnabled |-> TRUE,
   imageSmoothingQuality |-> "low", shadowColor |-> "rgba(0,0,0,0)",
   shadowBlur |-> 0]

\* one drawing operation together with the context settings it runs under
DrawOp(name, args, c) == [op |-> name, args |-> args, ctx |-> c]

\* drawImage paints nothing when an argument is NaN or infinite
Paints(r) ==
  /\ IsFinite(r.offsetX) /\ IsFinite(r.offsetY)
  /\ IsFinite(r.drawWidth) /\ IsFinite(r.drawHeight)

\* variant of PremiumOps: the frame drawn before the canvas is cleared
PremiumOpsDrawFirst(c0, r, cw, ch) ==
  LET c1 == [c0 EXCEPT !.imageSmoothingEnabled = TRUE,
                       !.imageSmoothingQuality = "high"]
      c2 == [c1 EXCEPT !.fillStyle = "#000000"]
      c3 == [c2 EXCEPT !.fillStyle = "vignette(0.7,0.15)"]
      c4 == [c3 EXCEPT !.shadowColor = "rgba(0,0,0,0.3)", !.shadowBlur = 2]
  IN  [ops |-> <<DrawOp("drawImage",
                        <<r.offsetX, r.offsetY, r.drawWidth, r.drawHeight>>, c1),
                 DrawOp("fillRect", <<0, 0, cw, ch>>, c2),
                 DrawOp("fillRect", <<0, 0, cw, ch>>, c3)>>,
       ctx |-> c4]

\* the canvas calls of drawHighQualityReframedVideo + addPremiumVisualEffects
PremiumOps(c0, r, cw, ch) ==
  LET c1 == [c0 EXCEPT !.fillStyle = "#000000"]
      c2 == [c1 EXCEPT !.imageSmoothingEnabled = TRUE,
                       !.imageSmoothingQuality = "high"]
      c3 == [c2 EXCEPT !.fillStyle = "vignette(0.7,0.15)"]
      c4 == [c3 EXCEPT !.shadowColor = "rgba(0,0,0,0.3)", !.shadowBlur = 2]
  IN  [ops |-> <<DrawOp("fillRect", <<0, 0, cw, ch>>, c1),
                 DrawOp("drawImage",
                        <<r.offsetX, r.offsetY, r.drawWidth, r.drawHeight>>, c2),
                 DrawOp("fillRect", <<0, 0, cw, ch>>, c3)>>,
       ctx |-> c4]

\* the canvas calls of drawReframedVideo
StandardOps(c0, r, cw, ch) ==
  LET c1 == [c0 EXCEPT !.fillStyle = "#000000"]
      c2 == [c1 EXCEPT !.fillStyle = "vignette(0,0.1)"]
  IN  [ops |-> <<DrawOp("fillRect", <<0, 0, cw, ch>>, c1),
                 DrawOp("drawImage",
                        <<r.offsetX, r.offsetY, r.drawWidth, r.drawHeight>>, c1),
                 DrawOp("fillRect", <<0, 0, cw, ch>>, c2)>>,
       ctx |-> c2]

(* ------------------------------ analysis ------------------------------ *)
\* Math.min, Math.max and Math.floor (NaN when an argument is NaN)
MathMin(a, b) == IF IsNaN(a) \/ IsNaN(b) THEN NaN ELSE IF NumLe(a, b) THEN a ELSE b
MathMax(a, b) == IF IsNaN(a) \/ IsNaN(b) THEN NaN ELSE IF NumGe(a, b) THEN a ELSE b
MathFloor(a) == IF IsFinite(a) THEN Int2Num(a[1] \div a[2]) ELSE a

\* values Math.random() returns in the model: it lies in [0, 1)
RandomSamples == {Int2Num(0), Frac(1, 10), Frac(3, 10), Frac(1, 2), Frac(9, 10)}
\* the k-th call of Math.random() in a run whose generator yields the cycle stream
Random(stream, k) == stream[((k - 1) % Len(stream)) + 1]

\* const clipDurations = [15, 30, 45, 60]
clipDurations == <<15, 30, 45, 60>>

\* variant of numClips: a clip for every started 15 (30) seconds
numClipsRoundedUp(revision, duration) ==
  IF revision = "premium"
  THEN MathMin(Int2Num(6), MathFloor(NumDiv(NumAdd(duration, Int2Num(14)), Int2Num(15))))
  ELSE MathMin(Int2Num(5), MathFloor(NumDiv(NumAdd(duration, Int2Num(29)), Int2Num(30))))

\* Math.min(6, Math.floor(duration / 15)), Math.min(5, Math.floor(duration / 30))
numClips(revision, duration) ==
  IF revision = "premium"
  THEN MathMin(Int2Num(6), MathFloor(NumDiv(duration, Int2Num(15))))
  ELSE MathMin(Int2Num(5), MathFloor(NumDiv(duration, Int2Num(30))))

\* iterations of for (let i = 0; i < n; i++): none when n is NaN
LoopCount(n) == IF IsFinite(n) /\ n[1] > 0 THEN n[1] ELSE 0

\* a clip as analyzeAndGenerateClips builds it
NewClip(id, startTime, clipDuration, duration, score, quality) ==
  [id |-> id,
   startTime |-> startTime,
   endTime |-> MathMin(NumAdd(startTime, clipDuration), duration),
   duration |-> MathMin(clipDuration, NumSub(duration, startTime)),
   engagementScore |-> NumAdd(Int2Num(80), NumMul(score, Int2Num(20))),
   quality |-> quality,
   blob |-> FALSE, captions |-> FALSE, audioBlob |-> FALSE]

\* Math.random() * Math.max(0, duration - clipDuration)
PremiumStart(r, duration, clipDuration) ==
  NumMul(r, MathMax(Int2Num(0), NumSub(duration, clipDuration)))

\* iteration i (from 0) of the loop of the premium analyzeAndGenerateClips
PremiumClip(i, duration, quality, stream) ==
  LET clipDuration == Int2Num(clipDurations[(i % Len(clipDurations)) + 1])
  IN  NewClip(<<"premium-clip-", i + 1>>,
              PremiumStart(Random(stream, 2 * i + 1), duration, clipDuration),
              clipDuration, duration, Random(stream, 2 * i + 2), quality)

\* iteration i (from 0) of the loop of the standard analyzeAndGenerateClips
StandardClip(i, duration, stream) ==
  NewClip(<<"clip-", i + 1>>,
          NumMul(Random(stream, 3 * i + 1), NumSub(duration, Int2Num(60))),
          NumAdd(Int2Num(30), NumMul(Random(stream, 3 * i + 2), Int2Num(30))),
          duration, Random(stream, 3 * i + 3), Undefined)

\* c placed behind every clip of the sorted array whose score is not lower
RECURSIVE InsertByScore(_, _)
InsertByScore(c, sorted) ==
  IF sorted = <<>> THEN <<c>>
  ELSE IF NumGe(Head(sorted).engagementScore, c.engagementScore)
       THEN <<Head(sorted)>> \o InsertByScore(c, Tail(sorted))
       ELSE <<c>> \o sorted

RECURSIVE StableSort(_, _)
StableSort(cs, sorted) ==
  IF cs = <<>> THEN sorted
  ELSE StableSort(Tail(cs), InsertByScore(Head(cs), sorted))

\* clips.sort((a, b) => b.engagementScore - a.engagementScore)
SortByScore(cs) == StableSort(cs, <<>>)

\* one onProgress call
Event(stage, value) == [stage |-> stage, progress |-> value]

\* base + (i / n) * span
Share(base, i, n, span) ==
  NumAdd(Int2Num(base), NumMul(NumDiv(Int2Num(i), n), Int2Num(span)))

\* analyzeAndGenerateClips: the clips it returns and the events it reports
analyzeAndGenerateClips(revision, duration, quality, stream) ==
  LET n == numClips(revision, duration)
      built == [k \in 1..LoopCount(n) |->
                  IF revision = "premium"
                  THEN PremiumClip(k - 1, duration, quality, stream)
                  ELSE StandardClip(k - 1, duration, stream)]
  IN  [clips |-> SortByScore(built),
       events |-> [k \in 1..LoopCount(n) |->
                     Event("analysis",
                           IF revision = "premium"
                           THEN Share(20, k - 1, n, 15)
                           ELSE Share(30, k - 1, n, 25))]]

(* ------------------------------ captions ------------------------------ *)
\* Strings are sequences of one-character strings, so that split, slice,
\* join, toUpperCase and includes are computed as JavaScript computes them.
LowerCase == <<"a", "b", "c", "d", "e", "f", "g", "h", "i", "j", "k", "l", "m", "n", "o", "p", "q", "r", "s", "t", "u", "v", "w", "x", "y", "z">>
UpperCase == <<"A", "B", "C", "D", "E", "F", "G", "H", "I", "J", "K", "L", "M", "N", "O", "P", "Q", "R", "S", "T", "U", "V", "W", "X", "Y", "Z">>

\* String.prototype.toUpperCase on one character
CharToUpperCase(c) ==
  IF \E k \in 1..Len(LowerCase) : LowerCase[k] = c
  THEN UpperCase[CHOOSE k \in 1..Len(LowerCase) : LowerCase[k] = c]
  ELSE c

\* text.toUpperCase()
ToUpperCase(text) == [k \in 1..Len(text) |-> CharToUpperCase(text[k])]

\* text.includes(needle)
Includes(text, needle) ==
  \E k \in 1..(Len(text) - Len(needle) + 1) :
    SubSeq(text, k, k + Len(needle) - 1) = needle

\* text.split(' ') from position k on, word being the characters read since
\* the last space
RECURSIVE SplitFrom(_, _, _)
SplitFrom(text, k, word) ==
  IF k > Len(text) THEN <<word>>
  ELSE IF text[k] = " " THEN <<word>> \o SplitFrom(text, k + 1, <<>>)
  ELSE SplitFrom(text, k + 1, Append(word, text[k]))

Split(text) == SplitFrom(text, 1, <<>>)

\* words.slice(i, j), indices from 0
Slice(words, i, j) ==
  SubSeq(words, i + 1, IF j < Len(words) THEN j ELSE Len(words))

\* words.join(' ')
RECURSIVE Join(_)
Join(words) ==
  IF words = <<>> THEN <<>>
  ELSE IF Len(words) = 1 THEN words[1]
  ELSE words[1] \o <<" ">> \o Join(Tail(words))

\* the sentences of generatePremiumOpusCaptions
premiumTexts ==
  <<<<"T", "h", "i", "s", " ", "m", "o", "m", "e", "n", "t", " ", "w",
      "i", "l", "l", " ", "c", "h", "a", "n", "g", "e", " ", "e", "v",
      "e", "r", "y", "t", "h", "i", "n", "g">>,
    <<"Y", "o", "u", "'", "v", "e", " ", "n", "e", "v", "e", "r", " ",
      "s", "e", "e", "n", " ", "a", "n", "y", "t", "h", "i", "n", "g",
      " ", "l", "i", "k", "e", " ", "t", "h", "i", "s">>,
    <<"T", "h", "e", " ", "s", "e", "c", "r", "e", "t", " ", "t", "h",
      "a", "t", " ", "e", "v", "e", "r", "y", "o", "n", "e", "'", "s",
      " ", "b", "e", "e", "n", " ", "w", "a", "i", "t", "i", "n", "g",
      " ", "f", "o", "r">>,
    <<"T", "h", "i", "s", " ", "w", "i", "l", "l", " ", "r", "e", "v",
      "o", "l", "u", "t", "i", "o", "n", "i", "z", "e", " ", "h", "o",
      "w", " ", "y", "o", "u", " ", "t", "h", "i", "n", "k">>,
    <<"T", "h", "e", " ", "b", "r", "e", "a", "k", "t", "h", "r", "o",
      "u", "g", "h", " ", "m", "o", "m", "e", "n", "t", " ", "i", "s",
      " ", "h", "e", "r", "e">>,
    <<"E", "v", "e", "r", "y", "t", "h", "i", "n", "g", " ", "y", "o",
      "u", " ", "k", "n", "e", "w", " ", "w", "a", "s", " ", "w", "r",
      "o", "n", "g">>,
    <<"T", "h", "e", " ", "t", "r", "u", "t", "h", " ", "t", "h", "e",
      "y", " ", "d", "o", "n", "'", "t", " ", "w", "a", "n", "t", " ",
      "y", "o", "u", " ", "t", "o", " ", "k", "n", "o", "w">>,
    <<"T", "h", "i", "s", " ", "c", "h", "a", "n", "g", "e", "s", " ",
      "t", "h", "e", " ", "e", "n", "t", "i", "r", "e", " ", "g", "a",
      "m", "e">>,
    <<"T", "h", "e", " ", "m", "o", "s", "t", " ", "i", "m", "p", "o",
      "r", "t", "a", "n", "t", " ", "d", "i", "s", "c", "o", "v", "e",
      "r", "y", " ", "e", "v", "e", "r">>,
    <<"Y", "o", "u", " ", "w", "o", "n", "'", "t", " ", "b", "e", "l",
      "i", "e", "v", "e", " ", "w", "h", "a", "t", " ", "h", "a", "p",
      "p", "e", "n", "s", " ", "n", "e", "x", "t">>>>

\* the words the styles are chosen by
SECRET == <<"S", "E", "C", "R", "E", "T">>
TRUTH == <<"T", "R", "U", "T", "H">>
NEVER == <<"N", "E", "V", "E", "R">>
IMPORTANT == <<"I", "M", "P", "O", "R", "T", "A", "N", "T">>
CHANGES == <<"C", "H", "A", "N", "G", "E", "S">>
REVOLUTIONARY == <<"R", "E", "V", "O", "L", "U", "T", "I", "O", "N", "A", "R", "Y">>

wordsPerSecond == Frac(22, 10)
maxCaptionLength == 5
\* the pause added after each segment
segmentPause == Frac(3, 10)

\* getPremiumOpusStyle(index, text)
getPremiumOpusStyle(index, text) ==
  IF Includes(text, SECRET) \/ Includes(text, TRUTH) \/ Includes(text, NEVER)
  THEN "highlight"
  ELSE IF \/ Includes(text, IMPORTANT) \/ Includes(text, CHANGES)
          \/ Includes(text, REVOLUTIONARY)
       THEN "emphasis"
       ELSE "normal"

\* getPremiumOpusPosition(index)
getPremiumOpusPosition(index) == <<"center", "bottom", "top">>[(index % 3) + 1]

\* The segments of every sentence, as the inner loop of
\* generatePremiumOpusCaptions cuts and styles them: the words of slice
\* (i, i + maxCaptionLength), the joined text, the upper-case text stored in
\* the caption, and the style, which is chosen from the joined text.
SegmentsOf(textIndex) ==
  LET words == Split(premiumTexts[textIndex + 1])
      starts == {i \in 0..(Len(words) - 1) : i % maxCaptionLength = 0}
  IN  [k \in 1..Cardinality(starts) |->
         LET i == (k - 1) * maxCaptionLength
             segmentWords == Slice(words, i, i + maxCaptionLength)
             segmentText == Join(segmentWords)
         IN  [words |-> Len(segmentWords),
              text |-> ToUpperCase(segmentText),
              style |-> getPremiumOpusStyle(textIndex, segmentText),
              position |-> getPremiumOpusPosition(textIndex)]]

PremiumSegments == [t \in 1..Len(premiumTexts) |-> SegmentsOf(t - 1)]

\* variant of SegmentFits: the end of the clip ignored
SegmentFitsAlways(currentTime, segmentDuration, duration) == TRUE

\* if (currentTime + segmentDuration > duration) break
SegmentFits(currentTime, segmentDuration, duration) ==
  ~NumGt(NumAdd(currentTime, segmentDuration), duration)

\* the for loop over the segments of sentence textIndex, from segment k on:
\* the captions and the currentTime it leaves
RECURSIVE SegmentLoop(_, _, _, _, _)
SegmentLoop(duration, textIndex, k, currentTime, captions) ==
  LET segments == PremiumSegments[textIndex + 1]
  IN  IF k > Len(segments) THEN [currentTime |-> currentTime, captions |-> captions]
      ELSE LET seg == segments[k]
               segmentDuration == NumDiv(Int2Num(seg.words), wordsPerSecond)
           IN  IF ~SegmentFits(currentTime, segmentDuration, duration)
               THEN [currentTime |-> currentTime, captions |-> captions]
               ELSE SegmentLoop(duration, textIndex, k + 1,
                      NumAdd(currentTime, NumAdd(segmentDuration, segmentPause)),
                      Append(captions,
                             [text |-> seg.text,
                              start |-> currentTime,
                              end |-> NumAdd(currentTime, segmentDuration),
                              style |-> seg.style,
                              position |-> seg.position]))

\* while (currentTime < duration - 1 && textIndex < premiumTexts.length)
RECURSIVE CaptionLoop(_, _, _, _)
CaptionLoop(duration, textIndex, currentTime, captions) ==
  IF ~(NumLt(currentTime, NumSub(duration, Int2Num(1)))
       /\ textIndex < Len(premiumTexts))
  THEN captions
  ELSE LET r == SegmentLoop(duration, textIndex, 1, currentTime, captions)
       IN  CaptionLoop(duration, textIndex + 1, r.currentTime, r.captions)

generatePremiumOpusCaptions(duration) == CaptionLoop(duration, 0, Int2Num(0), <<>>)

\* the sentences of generateMockCaptions
captionTexts ==
  <<<<"W", "e", "l", "c", "o", "m", "e", " ", "t", "o", " ", "t", "h",
      "i", "s", " ", "a", "m", "a", "z", "i", "n", "g", " ", "t", "u",
      "t", "o", "r", "i", "a", "l">>,
    <<"H", "e", "r", "e", "'", "s", " ", "w", "h", "a", "t", " ", "y",
      "o", "u", " ", "n", "e", "e", "d", " ", "t", "o", " ", "k", "n",
      "o", "w">>,
    <<"T", "h", "i", "s", " ", "w", "i", "l", "l", " ", "c", "h", "a",
      "n", "g", "e", " ", "e", "v", "e", "r", "y", "t", "h", "i", "n",
      "g">>,
    <<"P", "a", "y", " ", "a", "t", "t", "e", "n", "t", "i", "o", "n",
      " ", "t", "o", " ", "t", "h", "i", "s", " ", "p", "a", "r", "t">>,
    <<"T", "h", "e", " ", "s", "e", "c", "r", "e", "t", " ", "i", "s",
      " ", "r", "i", "g", "h", "t", " ", "h", "e", "r", "e">>,
    <<"D", "o", "n", "'", "t", " ", "m", "i", "s", "s", " ", "t", "h",
      "i", "s", " ", "i", "m", "p", "o", "r", "t", "a", "n", "t", " ",
      "t", "i", "p">>,
    <<"T", "h", "i", "s", " ", "i", "s", " ", "g", "a", "m", "e", "-",
      "c", "h", "a", "n", "g", "i", "n", "g", " ", "a", "d", "v", "i",
      "c", "e">>,
    <<"Y", "o", "u", " ", "w", "o", "n", "'", "t", " ", "b", "e", "l",
      "i", "e", "v", "e", " ", "w", "h", "a", "t", " ", "h", "a", "p",
      "p", "e", "n", "s", " ", "n", "e", "x", "t">>,
    <<"H", "e", "r", "e", "'", "s", " ", "t", "h", "e", " ", "b", "r",
      "e", "a", "k", "t", "h", "r", "o", "u", "g", "h", " ", "m", "o",
      "m", "e", "n", "t">>,
    <<"T", "h", "i", "s", " ", "i", "s", " ", "a", "b", "s", "o", "l",
      "u", "t", "e", "l", "y", " ", "i", "n", "c", "r", "e", "d", "i",
      "b", "l", "e">>>>

\* generateMockCaptions(duration)
generateMockCaptions(duration) ==
  LET numCaptions == MathMin(MathFloor(NumDiv(duration, Int2Num(3))),
                             Int2Num(Len(captionTexts)))
      segmentDuration == NumDiv(duration, numCaptions)
  IN  [i \in 1..LoopCount(numCaptions) |->
         [text |-> captionTexts[i],
          start |-> NumMul(Int2Num(i - 1), segmentDuration),
          end |-> NumMul(Int2Num(i), segmentDuration),
          style |-> Undefined,
          position |-> Undefined]]

\* the list assigned to clip.captions by generatePremiumCaptions /
\* generateCaptions
CaptionsFor(v, duration) ==
  IF v = "premium" THEN generatePremiumOpusCaptions(duration)
  ELSE generateMockCaptions(duration)

(* --------------------------- state helpers ---------------------------- *)
Clips == 1..MaxClips
NoRecorder == [state |-> "none", videoBitsPerSecond |-> 0,
               width |-> 0, height |-> 0, quality |-> Undefined,
               stopQueued |-> FALSE]
NoDraw == [called |-> FALSE]
NoCaptionCall == [called |-> FALSE]
\* 'const [currentVideo] = videos' of an empty array (id 0: undefined)
NoVideoData == [id |-> 0, file |-> FALSE]
\* no Dashboard has been mounted
NoDashboard ==
  [mounted |-> FALSE, kind |-> "standard", mount |-> 0,
   currentVideo |-> NoVideoData, effectRan |-> FALSE, isProcessing |-> FALSE,
   generatedShorts |-> <<>>, processingProgress |-> 0, timer |-> "none",
   awaiting |-> FALSE]
\* Index after its first render, nothing uploaded
UiIdle ==
  /\ currentView = "landing"
  /\ uploadedVideos = <<>>
  /\ uploaders = <<>>
  /\ dashboard = NoDashboard
  /\ toasts = {}
\* the canvas settings of a processVideo run: what the Dashboard controls can
\* select, and each field left out
CanvasOptionInputs ==
  [quality : QualityInputs,
   reframeSettings : {NoReframeSettings} \cup
      [present : {TRUE}, aspectRatio : AspectPresets, focusPoint : FocusPolicies],
   generateCaptions : {FALSE}, generateVoice : {FALSE}, voiceSettings : {FALSE}]
\* the stage switches of a processVideo run (voiceSettings: whether it is given)
StageOptionInputs ==
  [quality : {Undefined}, reframeSettings : {NoReframeSettings},
   generateCaptions : BOOLEAN, generateVoice : BOOLEAN, voiceSettings : BOOLEAN]
\* options of a processVideo run
OptionInputs == CanvasOptionInputs \cup StageOptionInputs
NoOptions ==
  [quality |-> Undefined, reframeSettings |-> NoReframeSettings,
   generateCaptions |-> FALSE, generateVoice |-> FALSE, voiceSettings |-> FALSE]
\* a media element before its metadata is known
NoVideo == [created |-> FALSE, videoWidth |-> 0, videoHeight |-> 0, duration |-> NaN]

\* the VideoProcessor singleton after construction, no run started
ProcessorIdle ==
  /\ variant \in Variants
  /\ mimeSupported \in BOOLEAN
  /\ pc = "idle"
  /\ options = NoOptions
  /\ video = NoVideo
  /\ canvas = [created |-> FALSE, width |-> 0, height |-> 0]
  /\ ctx = DefaultCtx
  /\ nClips = 0
  /\ clips = <<>>
  /\ processed = <<>>
  /\ progress = <<>>
  /\ promise = "none"
  /\ voiceAt = 0
  /\ recorder = [i \in Clips |-> NoRecorder]
  /\ loop = [i \in Clips |-> "none"]
  /\ timer = [i \in Clips |-> "none"]
  /\ seeking = FALSE
  /\ onseeked = 0
  /\ frames = 0
  /\ lastDraw = NoDraw
  /\ firstDraw = NoDraw
  /\ captionCall = NoCaptionCall

Init == ProcessorIdle /\ UiIdle

(* --------------------------- composite call --------------------------- *)
\* drawHighQualityReframedVideo / drawReframedVideo on the current state
Composite ==
  IF ~video.created \/ ~canvas.created
  THEN UNCHANGED <<ctx, lastDraw, firstDraw, frames>>
  ELSE LET r == Reframe(variant, video.videoWidth, video.videoHeight,
                        canvas.width, canvas.height, options.reframeSettings)
           out == IF variant = "premium"
                  THEN PremiumOps(ctx, r, canvas.width, canvas.height)
                  ELSE StandardOps(ctx, r, canvas.width, canvas.height)
           call == [called |-> TRUE,
                    videoWidth |-> video.videoWidth,
                    videoHeight |-> video.videoHeight,
                    canvasWidth |-> canvas.width,
                    canvasHeight |-> canvas.height,
                    reframeSettings |-> options.reframeSettings,
                    result |-> r,
                    ops |-> out.ops,
                    painted |-> Paints(r),
                    error |-> "none"]
       IN  /\ ctx' = out.ctx
           /\ lastDraw' = call
           /\ firstDraw' = IF firstDraw.called THEN firstDraw ELSE call
           /\ frames' = IF frames < MaxCalls THEN frames + 1 ELSE frames

(* ------------------------------ pipeline ------------------------------ *)
\* the stage events of processVideo and the events of the loops of its stages
InitializationEvent(v) ==
  Event("initialization", Int2Num(IF v = "premium" THEN 5 ELSE 10))
AnalysisEvent(v) == Event("analysis", Int2Num(IF v = "premium" THEN 20 ELSE 30))
\* variant of GenerationEvent: the stage announced below the analysis values
GenerationEventEarly(v) == Event("generation", Int2Num(15))

GenerationEvent(v) == Event("generation", Int2Num(IF v = "premium" THEN 40 ELSE 60))
CaptionsEvent(v) == Event("captions", Int2Num(IF v = "premium" THEN 70 ELSE 85))
VoiceEvent == Event("voice", Int2Num(85))
CompleteEvent == Event("complete", Int2Num(100))
\* reported before the extraction of clip i of n
ClipGenerationEvent(v, i, n) ==
  Event("generation", IF v = "premium" THEN Share(40, i - 1, Int2Num(n), 25)
                      ELSE Share(60, i - 1, Int2Num(n), 20))
\* reported after the captions of clip i of n
ClipCaptionsEvent(v, i, n) ==
  Event("captions", IF v = "premium" THEN Share(70, i - 1, Int2Num(n), 10)
                    ELSE Share(85, i - 1, Int2Num(n), 10))
\* reported after the voiceover of clip i of n
ClipVoiceEvent(i, n) == Event("voice", Share(85, i - 1, Int2Num(n), 10))

\* onloadedmetadata up to the generation loop: the analysed clips and the
\* events reported so far
AnalysisPhase(v, evs, duration, quality, stream) ==
  LET a == analyzeAndGenerateClips(v, duration, quality, stream)
  IN  [clips |-> a.clips,
       events |-> evs \o <<AnalysisEvent(v)>> \o a.events \o <<GenerationEvent(v)>>]

\* generatePremiumOpusCaptions / generateMockCaptions yields a caption
HasCaptions(v, duration) ==
  IF v = "premium"
  THEN /\ NumLt(Int2Num(0), NumSub(duration, Int2Num(1)))
       /\ ~NumGt(NumDiv(Int2Num(5), Frac(22, 10)), duration)
  ELSE NumGe(MathMin(MathFloor(NumDiv(duration, Int2Num(3))), Int2Num(10)),
             Int2Num(1))

\* generatePremiumCaptions / generateCaptions over the processed clips
WithCaptions(v, cs) ==
  [k \in 1..Len(cs) |-> [cs[k] EXCEPT !.captions = HasCaptions(v, cs[k].duration)]]

\* the first clip from index from on that generateVoiceovers does not skip
\* (0: none)
RECURSIVE NextVoiced(_, _)
NextVoiced(cs, from) ==
  IF from > Len(cs) THEN 0
  ELSE IF cs[from].captions THEN from
  ELSE NextVoiced(cs, from + 1)

\* resolve(value) / reject(error) on a promise in state p
Settle(p, outcome) == IF p = "pending" THEN outcome ELSE p

(* ----------------------------- extraction ---------------------------- *)
\* canvas size chosen by extractHighQualityVideoSegment / extractVideoSegment
TargetDimensions(v, opts) ==
  IF v = "premium"
  THEN getHighQualityCanvasDimensions(AspectOrDefault(opts), QualityOrDefault(opts))
  ELSE getCanvasDimensions(AspectOrDefault(opts))

\* the MediaRecorder constructed for one clip
NewRecorder(v, opts, dims) ==
  [state |-> "recording",
   videoBitsPerSecond |->
     IF v = "premium" THEN getQualityBitrate(QualityOrDefault(opts)) ELSE 0,
   width |-> dims[1], height |-> dims[2],
   quality |-> IF v = "premium" THEN QualityOrDefault(opts) ELSE Undefined,
   stopQueued |-> FALSE]

\* variant of PushFailed: the clip of a failed extraction is left out
PushFailedDropped(done, clip) == done

\* catch (error) { processedClips.push(clip) }
PushFailed(done, clip) == Append(done, clip)

\* processedClips.push({...clip, blob: videoBlob, url: ...})
PushExtracted(done, clip) == Append(done, [clip EXCEPT !.blob = TRUE])

\* every clip of cs from index i on pushed as failed
RECURSIVE PushAllFailed(_, _, _)
PushAllFailed(done, cs, i) ==
  IF i > Len(cs) THEN done
  ELSE PushAllFailed(PushFailed(done, cs[i]), cs, i + 1)

\* The for loop of generateHighQualityVideoClips / generateVideoClips over the
\* clips cs, resumed with processedClips = done, the recorders recs and the
\* events evs reported so far, run up to its next await: it reports the
\* progress of clip Len(done) + 1 and starts its extraction (canvas resized,
\* recorder started, seek issued, fallback timer set), or reports and pushes
\* every remaining clip without blob when the recorder cannot be constructed,
\* or returns when no clip is left.
Continue(done, recs, opts, cs, evs) ==
  LET i == Len(done) + 1
      n == Len(cs)
      dims == TargetDimensions(variant, opts)
  IN  IF i > n
      THEN /\ pc' = "finishing"
           /\ processed' = done
           /\ progress' = evs
           /\ recorder' = recs
           /\ UNCHANGED <<canvas, ctx, timer, seeking, onseeked>>
      ELSE /\ canvas' = [created |-> TRUE, width |-> dims[1], height |-> dims[2]]
           /\ ctx' = DefaultCtx
           /\ IF mimeSupported
              THEN /\ pc' = "extracting"
                   /\ processed' = done
                   /\ progress' = Append(evs, ClipGenerationEvent(variant, i, n))
                   /\ recorder' = [recs EXCEPT ![i] = NewRecorder(variant, opts, dims)]
                   /\ timer' = [timer EXCEPT ![i] = "pending"]
                   /\ seeking' = TRUE
                   /\ onseeked' = i
              ELSE /\ pc' = "finishing"
                   /\ processed' = PushAllFailed(done, cs, i)
                   /\ progress' = evs \o [k \in 1..(n - i + 1) |->
                                           ClipGenerationEvent(variant, i + k - 1, n)]
                   /\ recorder' = recs
                   /\ UNCHANGED <<timer, seeking, onseeked>>

\* the end of onloadedmetadata: 'complete' is reported and the promise resolved
Finish(cs, evs) ==
  /\ pc' = "done"
  /\ processed' = cs
  /\ progress' = Append(evs, CompleteEvent)
  /\ promise' = Settle(promise, "resolved")
  /\ voiceAt' = 0

\* generateVoiceovers resumed at clip k (0: no clip left) up to its next await
ContinueVoice(cs, evs, k) ==
  IF k = 0
  THEN Finish(cs, evs)
  ELSE /\ pc' = "voice"
       /\ processed' = cs
       /\ progress' = evs
       /\ voiceAt' = k
       /\ UNCHANGED promise

(* ------------------------------ actions ------------------------------- *)
\* processVideo(file, onProgress, opts) up to the returned promise
CallProcessVideo(opts) ==
  /\ pc = "idle"
  /\ variant = "standard" =>
       opts.quality = Undefined /\ ~opts.generateVoice /\ ~opts.voiceSettings
  /\ pc' = "loading"
  /\ options' = opts
  /\ video' = [NoVideo EXCEPT !.created = TRUE]
  /\ canvas' = [created |-> TRUE, width |-> 300, height |-> 150]
  /\ ctx' = DefaultCtx
  /\ progress' = <<InitializationEvent(variant)>>
  /\ promise' = "pending"
  /\ UNCHANGED <<captionCall, variant, mimeSupported, nClips, clips, processed, voiceAt,
                 recorder, loop, timer, seeking, onseeked, frames, lastDraw,
                 firstDraw>>

\* processVideo called by a caller that is not modelled
ProcessVideo(opts) == CallProcessVideo(opts) /\ UNCHANGED uiVars

\* video.onloadedmetadata: the decoder reports w x h and the duration, the
\* analysis draws its random numbers from stream and the generation loop starts
LoadedMetadata(w, h, duration, stream) ==
  /\ pc = "loading"
  /\ LoopCount(numClips(variant, duration)) <= MaxClips
  /\ LET a == AnalysisPhase(variant, progress, duration,
                            QualityOrDefault(options), stream)
     IN  /\ clips' = a.clips
         /\ nClips' = Len(a.clips)
         /\ Continue(<<>>, recorder, options, a.clips, a.events)
  /\ video' = [video EXCEPT !.videoWidth = w, !.videoHeight = h,
                            !.duration = duration]
  /\ UNCHANGED <<uiVars, captionCall, variant, mimeSupported, options, promise, voiceAt, loop,
                 frames, lastDraw, firstDraw>>

\* video.onerror: reject(new Error('Failed to load video')); before the
\* metadata is known the run ends here, later the pipeline goes on
VideoError ==
  /\ pc \in {"loading", "extracting", "voice"}
  /\ promise = "pending"
  /\ promise' = Settle(promise, "rejected")
  /\ pc' = IF pc = "loading" THEN "failed" ELSE pc
  /\ UNCHANGED <<uiVars, captionCall, variant, mimeSupported, options, video, canvas, ctx, nClips,
                 clips, processed, progress, voiceAt, recorder, loop, timer,
                 seeking, onseeked, frames, lastDraw, firstDraw>>

\* recordFrame of clip i when video.currentTime >= endTime: mediaRecorder.stop()
\* (stop() on a recorder that is not recording throws InvalidStateError)
FrameStop(i) ==
  /\ IF recorder[i].state = "recording"
     THEN /\ recorder' = [recorder EXCEPT ![i].state = "inactive",
                                          ![i].stopQueued = TRUE]
          /\ loop' = [loop EXCEPT ![i] = "ended"]
     ELSE /\ loop' = [loop EXCEPT ![i] = "crashed"]
          /\ UNCHANGED recorder
  /\ UNCHANGED <<ctx, frames, lastDraw, firstDraw>>

\* recordFrame of clip i otherwise: composite call, then requestAnimationFrame
FrameDraw(i) ==
  /\ Composite
  /\ loop' = [loop EXCEPT ![i] = "running"]
  /\ UNCHANGED recorder

\* video.onseeked: video.play(); recordFrame()
Seeked ==
  /\ seeking
  /\ onseeked # 0
  /\ seeking' = FALSE
  /\ \/ FrameStop(onseeked)
     \/ FrameDraw(onseeked)
  /\ UNCHANGED <<uiVars, captionCall, variant, mimeSupported, pc, options, video, canvas, nClips,
                 clips, processed, progress, promise, voiceAt, timer, onseeked>>

\* a requestAnimationFrame callback of clip i's chain, time boundary reached
RecordFrameStop(i) ==
  /\ loop[i] = "running"
  /\ FrameStop(i)
  /\ UNCHANGED <<uiVars, captionCall, variant, mimeSupported, pc, options, video, canvas, nClips,
                 clips, processed, progress, promise, voiceAt, timer, seeking,
                 onseeked>>

\* a requestAnimationFrame callback of clip i's chain, time boundary not reached
RecordFrameDraw(i) ==
  /\ loop[i] = "running"
  /\ FrameDraw(i)
  /\ UNCHANGED <<uiVars, captionCall, variant, mimeSupported, pc, options, video, canvas, nClips,
                 clips, processed, progress, promise, voiceAt, timer, seeking,
                 onseeked>>

\* variant of TimerFires: the callback runs but leaves the recorder alone
TimerFiresIdle(i) ==
  /\ timer[i] = "pending"
  /\ timer' = [timer EXCEPT ![i] = "fired"]
  /\ UNCHANGED <<uiVars, captionCall, variant, mimeSupported, pc, options, video, canvas, ctx,
                 nClips, clips, processed, progress, promise, voiceAt,
                 recorder, loop, seeking, onseeked, frames, lastDraw,
                 firstDraw>>

\* the fallback setTimeout of clip i
TimerFires(i) ==
  /\ timer[i] = "pending"
  /\ timer' = [timer EXCEPT ![i] = "fired"]
  /\ recorder' = IF recorder[i].state = "recording"
                 THEN [recorder EXCEPT ![i].state = "inactive",
                                       ![i].stopQueued = TRUE]
                 ELSE recorder
  /\ UNCHANGED <<uiVars, captionCall, variant, mimeSupported, pc, options, video, canvas, ctx,
                 nClips, clips, processed, progress, promise, voiceAt, loop,
                 seeking, onseeked, frames, lastDraw, firstDraw>>

\* the extraction promise of clip i is still pending
Pending(i) == pc = "extracting" /\ Len(processed) = i - 1

\* mediaRecorder.onstop of clip i: resolve(blob); the generation loop resumes
OnStop(i) ==
  /\ recorder[i].stopQueued
  /\ LET recs == [recorder EXCEPT ![i].stopQueued = FALSE]
     IN  IF Pending(i)
         THEN Continue(PushExtracted(processed, clips[i]), recs, options,
                       clips, progress)
         ELSE /\ recorder' = recs
              /\ UNCHANGED <<pc, processed, progress, canvas, ctx, timer,
                             seeking, onseeked>>
  /\ UNCHANGED <<uiVars, captionCall, variant, mimeSupported, options, video, nClips, clips,
                 promise, voiceAt, loop, frames, lastDraw, firstDraw>>

\* mediaRecorder.onerror of clip i: reject(error); the clip is pushed without
\* blob and the generation loop resumes
RecorderError(i) ==
  /\ recorder[i].state = "recording"
  /\ LET recs == [recorder EXCEPT ![i].state = "inactive",
                                  ![i].stopQueued = TRUE]
     IN  IF Pending(i)
         THEN Continue(PushFailed(processed, clips[i]), recs, options, clips,
                       progress)
         ELSE /\ recorder' = recs
              /\ UNCHANGED <<pc, processed, progress, canvas, ctx, timer,
                             seeking, onseeked>>
  /\ UNCHANGED <<uiVars, captionCall, variant, mimeSupported, options, video, nClips, clips,
                 promise, voiceAt, loop, frames, lastDraw, firstDraw>>

\* the rest of onloadedmetadata after the generation loop: the captions
\* stage, then the voice stage up to its first await, or 'complete' and
\* resolve(processedClips)
Complete ==
  /\ pc = "finishing"
  /\ LET n == Len(processed)
         captioned == IF options.generateCaptions
                      THEN WithCaptions(variant, processed) ELSE processed
         evs == IF options.generateCaptions
                THEN progress \o <<CaptionsEvent(variant)>>
                       \o [k \in 1..n |-> ClipCaptionsEvent(variant, k, n)]
                ELSE progress
     IN  IF variant = "premium" /\ options.generateVoice /\ options.voiceSettings
         THEN ContinueVoice(captioned, Append(evs, VoiceEvent),
                            NextVoiced(captioned, 1))
         ELSE Finish(captioned, evs)
  /\ captionCall' =
       IF options.generateCaptions /\ Len(processed) > 0
       THEN LET last == processed[Len(processed)]
            IN  [called |-> TRUE, duration |-> last.duration,
                 captions |-> CaptionsFor(variant, last.duration)]
       ELSE captionCall
  /\ UNCHANGED <<uiVars, variant, mimeSupported, options, video, canvas, ctx, nClips,
                 clips, recorder, loop, timer, seeking, onseeked, frames,
                 lastDraw, firstDraw>>

\* variant of VoiceSettled: a failed request ends the voice stage
VoiceSettledAborting(ok) ==
  /\ pc = "voice"
  /\ LET k == voiceAt
         cs == IF ok THEN [processed EXCEPT ![k].audioBlob = TRUE] ELSE processed
         evs == IF ok THEN Append(progress, ClipVoiceEvent(k, Len(processed)))
                ELSE progress
     IN  ContinueVoice(cs, evs, IF ok THEN NextVoiced(cs, k + 1) ELSE 0)
  /\ UNCHANGED <<uiVars, captionCall, variant, mimeSupported, options, video, canvas,
                 ctx, nClips, clips, recorder, loop, timer, seeking, onseeked,
                 frames, lastDraw, firstDraw>>

\* voiceService.generateVoice for clip voiceAt settles: on success the audio
\* is stored and the progress reported, on failure the error is logged
VoiceSettled(ok) ==
  /\ pc = "voice"
  /\ LET k == voiceAt
         cs == IF ok THEN [processed EXCEPT ![k].audioBlob = TRUE] ELSE processed
         evs == IF ok THEN Append(progress, ClipVoiceEvent(k, Len(processed)))
                ELSE progress
     IN  ContinueVoice(cs, evs, NextVoiced(cs, k + 1))
  /\ UNCHANGED <<uiVars, captionCall, variant, mimeSupported, options, video, canvas, ctx, nClips,
                 clips, recorder, loop, timer, seeking, onseeked, frames,
                 lastDraw, firstDraw>>

\* what the decoder reports for the files of the model: <<videoWidth,
\* videoHeight, duration, random stream of the analysis>>.  The first group
\* yields at most one clip; in the second the later clip of a pair gets the
\* higher score (the generator is called twice per clip in the premium
\* revision, three times in the standard one).
MetadataInputs ==
  {<<m[1], m[2], Int2Num(d), <<Int2Num(0)>>>> : m \in MetadataSizes, d \in {0, 20}}
  \cup
  {<<16, 9, Int2Num(31), <<Frac(1, 2), Int2Num(0), Int2Num(0)>>>>,
   <<16, 9, Int2Num(45), <<Frac(1, 2), Int2Num(0), Int2Num(0)>>>>,
   <<16, 9, Int2Num(70),
     <<Frac(9, 10), Int2Num(0), Int2Num(0), Int2Num(0), Int2Num(0)>>>>}

\* files that yield several clips are explored with the stage switches only,
\* files that yield more than two with the default options only
Explored(opts, duration) ==
  /\ LoopCount(numClips(variant, duration)) > 1 => opts \in StageOptionInputs
  /\ LoopCount(numClips(variant, duration)) > 2 => opts = NoOptions

Next ==
  \/ \E opts \in OptionInputs : ProcessVideo(opts)
  \/ \E m \in MetadataInputs :
       Explored(options, m[3]) /\ LoadedMetadata(m[1], m[2], m[3], m[4])
  \/ VideoError
  \/ Seeked
  \/ \E i \in Clips : RecordFrameStop(i)
  \/ \E i \in Clips : RecordFrameDraw(i)
  \/ \E i \in Clips : TimerFires(i)
  \/ \E i \in Clips : OnStop(i)
  \/ \E i \in Clips : RecorderError(i)
  \/ Complete
  \/ \E ok \in BOOLEAN : VoiceSettled(ok)

Spec == Init /\ [][Next]_vars

\* The same program under the scheduling the browser guarantees: a timer
\* that was set fires, and a recorder that was stopped delivers its stop
\* event.  Nothing is assumed of the seek, of the playback position or of the
\* animation frames.
\* The runs explored are those on 16:9 files with the default canvas and the
\* later stages all on or all off: the extraction protocol depends on neither.
StageMetadataInputs == {m \in MetadataInputs : m[1] = 16 /\ m[2] = 9}

\* every later stage switched on, or none
FairOptionInputs ==
  {o \in StageOptionInputs :
     /\ o.generateCaptions = o.generateVoice
     /\ o.generateVoice = o.voiceSettings}

StageNext ==
  \/ \E opts \in FairOptionInputs : ProcessVideo(opts)
  \/ \E m \in StageMetadataInputs :
       Explored(options, m[3]) /\ LoadedMetadata(m[1], m[2], m[3], m[4])
  \/ VideoError
  \/ Seeked
  \/ \E i \in Clips : RecordFrameStop(i)
  \/ \E i \in Clips : RecordFrameDraw(i)
  \/ \E i \in Clips : TimerFires(i)
  \/ \E i \in Clips : OnStop(i)
  \/ \E i \in Clips : RecorderError(i)
  \/ Complete
  \/ \E ok \in BOOLEAN : VoiceSettled(ok)

FairSpec ==
  /\ Init /\ [][StageNext]_vars
  /\ \A i \in Clips : WF_vars(TimerFires(i)) /\ WF_vars(OnStop(i))

(* ------------------------- pipeline harness --------------------------- *)
\* The stages of processVideo over files of every clip count, the extraction
\* of a clip reduced to its outcome (blob or exception).

\* durations reported by the decoder: below, at and above the multiples of
\* 15 and 30 that decide the clip count, and a stream without a known end
DurationInputs ==
  {Int2Num(d) : d \in {0, 14, 15, 31, 45, 60, 61, 75, 90, 100, 200}}
  \cup {Frac(299, 10), <<1, 0>>}

\* values returned by successive calls of Math.random(), repeated in a cycle
RandomStreams ==
  {<<Int2Num(0)>>, <<Frac(9, 10)>>,
   <<Frac(1, 2), Int2Num(0), Frac(9, 10), Frac(1, 10), Frac(3, 10)>>}

PipelineOptionInputs ==
  {o \in StageOptionInputs : o.generateVoice = o.voiceSettings}

PipelineInit ==
  /\ variant \in Variants
  /\ mimeSupported = TRUE
  /\ pc = "loading"
  /\ options \in PipelineOptionInputs
  /\ variant = "standard" => ~options.generateVoice
  /\ video = [NoVideo EXCEPT !.created = TRUE]
  /\ canvas = [created |-> TRUE, width |-> 300, height |-> 150]
  /\ ctx = DefaultCtx
  /\ nClips = 0
  /\ clips = <<>>
  /\ processed = <<>>
  /\ progress = <<InitializationEvent(variant)>>
  /\ promise = "pending"
  /\ voiceAt = 0
  /\ recorder = [i \in Clips |-> NoRecorder]
  /\ loop = [i \in Clips |-> "none"]
  /\ timer = [i \in Clips |-> "none"]
  /\ seeking = FALSE
  /\ onseeked = 0
  /\ frames = 0
  /\ lastDraw = NoDraw
  /\ firstDraw = NoDraw
  /\ captionCall = NoCaptionCall
  /\ UiIdle

\* video.onloadedmetadata up to the generation loop
Analyze(duration, stream) ==
  /\ pc = "loading"
  /\ LET a == AnalysisPhase(variant, progress, duration,
                            QualityOrDefault(options), stream)
     IN  /\ clips' = a.clips
         /\ nClips' = Len(a.clips)
         /\ progress' = a.events
         /\ pc' = IF Len(a.clips) = 0 THEN "finishing" ELSE "generating"
  /\ video' = [video EXCEPT !.videoWidth = 16, !.videoHeight = 9,
                            !.duration = duration]
  /\ UNCHANGED <<uiVars, captionCall, variant, mimeSupported, options, canvas, ctx, processed,
                 promise, voiceAt, recorder, loop, timer, seeking, onseeked,
                 frames, lastDraw, firstDraw>>

\* one iteration of the loop of generateHighQualityVideoClips /
\* generateVideoClips: the progress is reported, the extraction yields a blob
\* (ok) or throws, and the clip is pushed
Extracted(ok) ==
  /\ pc = "generating"
  /\ LET i == Len(processed) + 1
         n == Len(clips)
     IN  /\ progress' = Append(progress, ClipGenerationEvent(variant, i, n))
         /\ processed' = IF ok THEN PushExtracted(processed, clips[i])
                         ELSE PushFailed(processed, clips[i])
         /\ pc' = IF i = n THEN "finishing" ELSE "generating"
  /\ UNCHANGED <<uiVars, captionCall, variant, mimeSupported, options, video, canvas, ctx, nClips,
                 clips, promise, voiceAt, recorder, loop, timer, seeking,
                 onseeked, frames, lastDraw, firstDraw>>

PipelineNext ==
  \/ \E d \in DurationInputs : \E stream \in RandomStreams : Analyze(d, stream)
  \/ \E ok \in BOOLEAN : Extracted(ok)
  \/ Complete
  \/ \E ok \in BOOLEAN : VoiceSettled(ok)
  \/ VideoError

PipelineSpec == PipelineInit /\ [][PipelineNext]_vars

(* -------------------------- caption harness --------------------------- *)
\* The captions stage entered with one processed clip of any duration.

\* clip durations: every half second up to MaxCaptionHalves halves, the
\* shortest duration that holds a caption (5 / 2.2) and its neighbours, and
\* the values a clip of a video without a known end gets
CaptionDurations ==
  {Frac(k, 2) : k \in -2..MaxCaptionHalves}
  \cup {Frac(25, 11), Frac(249, 110), Frac(251, 110), NaN, <<1, 0>>}

CaptionInit ==
  /\ variant \in Variants
  /\ mimeSupported = TRUE
  /\ pc = "finishing"
  /\ options \in {o \in PipelineOptionInputs : o.generateCaptions}
  /\ variant = "standard" => ~options.generateVoice
  /\ video = [created |-> TRUE, videoWidth |-> 16, videoHeight |-> 9,
              duration |-> Int2Num(200)]
  /\ canvas = [created |-> TRUE, width |-> 300, height |-> 150]
  /\ ctx = DefaultCtx
  /\ nClips = 1
  /\ \E d \in CaptionDurations :
       clips = <<[NewClip(<<"clip-", 1>>, Int2Num(0), Int2Num(15), Int2Num(200),
                          Int2Num(0), QualityOrDefault(options))
                  EXCEPT !.duration = d]>>
  /\ processed = clips
  /\ progress = <<InitializationEvent(variant), AnalysisEvent(variant),
                  GenerationEvent(variant), ClipGenerationEvent(variant, 1, 1)>>
  /\ promise = "pending"
  /\ voiceAt = 0
  /\ recorder = [i \in Clips |-> NoRecorder]
  /\ loop = [i \in Clips |-> "none"]
  /\ timer = [i \in Clips |-> "none"]
  /\ seeking = FALSE
  /\ onseeked = 0
  /\ frames = 0
  /\ lastDraw = NoDraw
  /\ firstDraw = NoDraw
  /\ captionCall = NoCaptionCall
  /\ UiIdle

CaptionNext ==
  \/ Complete
  \/ \E ok \in BOOLEAN : VoiceSettled(ok)

CaptionSpec == CaptionInit /\ [][CaptionNext]_vars

(* ------------------------- geometry harness --------------------------- *)
\* canvas sizes of the harness: every small size and every size of the tables
HarnessCanvases ==
  ((1..MaxCanvas) \X (1..MaxCanvas))
  \cup {getHighQualityCanvasDimensions(a, q) : a \in AspectPresets, q \in Qualities}

\* frame sizes of the harness: no video track, and every small size
HarnessSources == {<<0, 0>>} \cup ((1..MaxSource) \X (1..MaxSource))

\* the file of the harness run: long enough for one clip, analysed with a
\* generator that returns 0
HarnessDuration(v) == Int2Num(IF v = "premium" THEN 20 ELSE 31)
HarnessAnalysis(v) ==
  AnalysisPhase(v, <<InitializationEvent(v)>>, HarnessDuration(v), "FHD",
                <<Int2Num(0)>>)

\* a processor in the middle of the extraction of clip 1, with any frame
\* size, canvas size and focus setting
ReframeInit ==
  /\ variant \in Variants
  /\ mimeSupported = TRUE
  /\ pc = "extracting"
  /\ options \in [quality : {Undefined},
                  reframeSettings : {NoReframeSettings} \cup
                     [present : {TRUE}, aspectRatio : {"9:16"},
                      focusPoint : FocusInputs],
                  generateCaptions : {FALSE}, generateVoice : {FALSE},
                  voiceSettings : {FALSE}]
  /\ \E d \in HarnessSources :
       video = [created |-> TRUE, videoWidth |-> d[1], videoHeight |-> d[2],
                duration |-> HarnessDuration(variant)]
  /\ \E d \in HarnessCanvases :
       /\ canvas = [created |-> TRUE, width |-> d[1], height |-> d[2]]
       /\ recorder = [i \in Clips |->
                        IF i = 1 THEN NewRecorder(variant, options, d)
                        ELSE NoRecorder]
  /\ ctx = DefaultCtx
  /\ nClips = 1
  /\ clips = HarnessAnalysis(variant).clips
  /\ processed = <<>>
  /\ progress = Append(HarnessAnalysis(variant).events,
                       ClipGenerationEvent(variant, 1, 1))
  /\ promise = "pending"
  /\ voiceAt = 0
  /\ loop = [i \in Clips |-> IF i = 1 THEN "running" ELSE "none"]
  /\ timer = [i \in Clips |-> IF i = 1 THEN "pending" ELSE "none"]
  /\ seeking = FALSE
  /\ onseeked = 1
  /\ frames = 0
  /\ lastDraw = NoDraw
  /\ firstDraw = NoDraw
  /\ captionCall = NoCaptionCall
  /\ UiIdle

\* one more tick of the capture loop of clip i
HarnessFrame(i) ==
  /\ loop[i] = "running"
  /\ FrameDraw(i)
  /\ UNCHANGED <<uiVars, captionCall, variant, mimeSupported, pc, options, video, canvas, nClips,
                 clips, processed, progress, promise, voiceAt, timer, seeking,
                 onseeked>>

ReframeNext == \E i \in Clips : HarnessFrame(i)

ReframeSpec == ReframeInit /\ [][ReframeNext]_vars

(* --------------------------- user interface --------------------------- *)
\* Index (src/unnamed/part_000), VideoUploader (src/unnamed/part_001) and the
\* Dashboard in its two revisions (src/src/components/Dashboard.tsx, here
\* "standard", src/unnamed/part_001, here "premium").  A state update of a
\* component that is no longer mounted is dropped, as React does; the
\* onProgress mirror of the Dashboard is the variable progress.

\* a VideoUploader after its first render (completions counts the calls of
\* onUploadComplete, dropped: an update was queued after the unmount)
NewUploader ==
  [mounted |-> TRUE, isUploading |-> FALSE, uploadedFile |-> FALSE,
   uploadProgress |-> 0, interval |-> "none", completions |-> 0,
   dropped |-> FALSE]

\* Math.random() * 15 for the random values 0, 1/3 and 14/15
UploadIncrements == {0, 5, 14}

\* a video object that carries its file, as 'currentVideo.file' expects
FileVideoData(n) == [id |-> n, file |-> TRUE]

\* variant of VideoData: the object carries the uploaded file
VideoDataWithFile(n) == FileVideoData(n)

\* the videoData object of simulateUpload (id stands for Date.now()): name,
\* duration, size, uploadedAt, status and thumbnailUrl, and no file
VideoData(n) == [id |-> n, file |-> FALSE]

\* the mock clips set by the Dashboard's timer
MockShorts(kind) ==
  IF kind = "premium"
  THEN <<[id |-> <<"mock-", 1>>], [id |-> <<"mock-", 2>>]>>
  ELSE <<[id |-> <<"mock-", 1>>], [id |-> <<"mock-", 2>>],
         [id |-> <<"mock-", 3>>]>>

\* the options processVideoFile passes with the Dashboard's initial state
DashboardOptions(kind) ==
  [quality |-> IF kind = "premium" THEN "FHD" ELSE Undefined,
   reframeSettings |->
     [present |-> TRUE, aspectRatio |-> "9:16", focusPoint |-> "center"],
   generateCaptions |-> TRUE, generateVoice |-> FALSE,
   voiceSettings |-> (kind = "premium")]

\* variant of CurrentVideo: the latest upload
CurrentVideoLatest(videos) ==
  IF videos = <<>> THEN NoVideoData ELSE videos[Len(videos)]

\* const [currentVideo] = videos
CurrentVideo(videos) ==
  IF videos = <<>> THEN NoVideoData ELSE videos[1]

\* <Dashboard videos={videos} .../> rendered for the first time
MountDashboard(videos) ==
  [mounted |-> TRUE, kind |-> dashboard.kind, mount |-> dashboard.mount + 1,
   currentVideo |-> CurrentVideo(videos), effectRan |-> FALSE,
   isProcessing |-> TRUE, generatedShorts |-> <<>>, processingProgress |-> 0,
   timer |-> "none", awaiting |-> FALSE]

\* onGetStarted / the call-to-action button: setCurrentView('upload')
GetStarted ==
  /\ currentView = "landing"
  /\ Len(uploaders) < MaxUploads
  /\ currentView' = "upload"
  /\ uploaders' = Append(uploaders, NewUploader)
  /\ UNCHANGED <<processorVars, uploadedVideos, dashboard, toasts>>

\* onBack of the VideoUploader: setCurrentView('landing'); the component is
\* unmounted, its interval is not cleared
UploaderBack ==
  /\ currentView = "upload"
  /\ currentView' = "landing"
  /\ uploaders' = [uploaders EXCEPT ![Len(uploaders)].mounted = FALSE]
  /\ UNCHANGED <<processorVars, uploadedVideos, dashboard, toasts>>

\* handleFiles followed by simulateUpload up to setInterval, for a video
\* ("video"), no video ("other") or a video above 2 GB ("large")
HandleFiles(f) ==
  /\ currentView = "upload"
  /\ LET u == Len(uploaders)
     IN  /\ ~uploaders[u].isUploading /\ ~uploaders[u].uploadedFile
         /\ IF f = "other"
            THEN /\ toasts' = toasts \cup {"Invalid file type"}
                 /\ UNCHANGED uploaders
            ELSE IF f = "large"
            THEN /\ toasts' = toasts \cup {"File too large"}
                 /\ UNCHANGED uploaders
            ELSE /\ uploaders' = [uploaders EXCEPT
                                    ![u].uploadedFile = TRUE,
                                    ![u].isUploading = TRUE,
                                    ![u].uploadProgress = 0,
                                    ![u].interval = "running"]
                 /\ UNCHANGED toasts
  /\ UNCHANGED <<processorVars, currentView, uploadedVideos, dashboard>>

\* variant of Tick: the updater also runs for an unmounted VideoUploader
TickUnmounted(u, inc) ==
  /\ u \in 1..Len(uploaders)
  /\ uploaders[u].interval = "running"
  /\ IF uploaders[u].uploadProgress >= 100
     THEN /\ uploaders' = [uploaders EXCEPT
                             ![u].interval = "cleared",
                             ![u].isUploading = FALSE,
                             ![u].uploadProgress = 100,
                             ![u].completions = @ + 1,
                             ![u].mounted = FALSE]
          /\ uploadedVideos' =
               Append(uploadedVideos, VideoData(Len(uploadedVideos) + 1))
          /\ currentView' = "dashboard"
          /\ dashboard' = MountDashboard(uploadedVideos')
          /\ toasts' = toasts \cup {"Upload Complete!"}
     ELSE /\ uploaders' = [uploaders EXCEPT ![u].uploadProgress = @ + inc]
          /\ UNCHANGED <<currentView, uploadedVideos, dashboard, toasts>>
  /\ UNCHANGED processorVars

\* one call of the setInterval callback of uploader u: setUploadProgress with
\* the updater, which at prev >= 100 clears the interval and calls
\* onUploadComplete = handleVideoUpload (append the video, show the
\* dashboard) and otherwise adds Math.random() * 15
Tick(u, inc) ==
  /\ u \in 1..Len(uploaders)
  /\ uploaders[u].interval = "running"
  /\ IF ~uploaders[u].mounted
     THEN /\ uploaders' = [uploaders EXCEPT ![u].dropped = TRUE]
          /\ UNCHANGED <<currentView, uploadedVideos, dashboard, toasts>>
     ELSE IF uploaders[u].uploadProgress >= 100
     THEN /\ uploaders' = [uploaders EXCEPT
                             ![u].interval = "cleared",
                             ![u].isUploading = FALSE,
                             ![u].uploadProgress = 100,
                             ![u].completions = @ + 1,
                             ![u].mounted = FALSE]
          /\ uploadedVideos' =
               Append(uploadedVideos, VideoData(Len(uploadedVideos) + 1))
          /\ currentView' = "dashboard"
          /\ dashboard' = MountDashboard(uploadedVideos')
          /\ toasts' = toasts \cup {"Upload Complete!"}
     ELSE /\ uploaders' = [uploaders EXCEPT ![u].uploadProgress = @ + inc]
          /\ UNCHANGED <<currentView, uploadedVideos, dashboard, toasts>>
  /\ UNCHANGED processorVars

\* onBack of the Dashboard: setCurrentView('landing'); the component is
\* unmounted, its timer and its processVideo run go on
DashboardBack ==
  /\ currentView = "dashboard"
  /\ currentView' = "landing"
  /\ dashboard' = [dashboard EXCEPT !.mounted = FALSE]
  /\ UNCHANGED <<processorVars, uploadedVideos, uploaders, toasts>>

\* the Dashboard's useEffect after mounting: processVideoFile up to its
\* await when the current video has a file, the mock timer otherwise
DashboardEffect ==
  /\ dashboard.mounted
  /\ ~dashboard.effectRan
  /\ IF dashboard.currentVideo.file
     THEN /\ CallProcessVideo(DashboardOptions(dashboard.kind))
          /\ dashboard' = [dashboard EXCEPT !.effectRan = TRUE,
                                            !.awaiting = TRUE]
     ELSE /\ dashboard' = [dashboard EXCEPT !.effectRan = TRUE,
                                            !.timer = "pending"]
          /\ UNCHANGED processorVars
  /\ UNCHANGED <<currentView, uploadedVideos, uploaders, toasts>>

\* the callback of the Dashboard's setTimeout
MockTimerFires ==
  /\ dashboard.timer = "pending"
  /\ dashboard' =
       IF dashboard.mounted
       THEN [dashboard EXCEPT !.timer = "fired",
                              !.generatedShorts = MockShorts(dashboard.kind),
                              !.processingProgress = 100,
                              !.isProcessing = FALSE]
       ELSE [dashboard EXCEPT !.timer = "fired"]
  /\ UNCHANGED <<processorVars, currentView, uploadedVideos, uploaders, toasts>>

\* variant of ProcessingSettled: the catch block leaves isProcessing alone
ProcessingSettledStuck ==
  /\ dashboard.awaiting
  /\ promise \in {"resolved", "rejected"}
  /\ IF promise = "resolved"
     THEN /\ dashboard' =
               IF dashboard.mounted
               THEN [dashboard EXCEPT !.awaiting = FALSE,
                                      !.generatedShorts = processed,
                                      !.isProcessing = FALSE]
               ELSE [dashboard EXCEPT !.awaiting = FALSE]
          /\ toasts' = toasts \cup {"Processing Complete!"}
     ELSE /\ dashboard' = [dashboard EXCEPT !.awaiting = FALSE]
          /\ toasts' = toasts \cup {"Processing Failed"}
  /\ UNCHANGED <<processorVars, currentView, uploadedVideos, uploaders>>

\* processVideoFile after its await: the try block's rest when the promise
\* resolved, the catch block when it rejected
ProcessingSettled ==
  /\ dashboard.awaiting
  /\ promise \in {"resolved", "rejected"}
  /\ IF promise = "resolved"
     THEN /\ dashboard' =
               IF dashboard.mounted
               THEN [dashboard EXCEPT !.awaiting = FALSE,
                                      !.generatedShorts = processed,
                                      !.isProcessing = FALSE]
               ELSE [dashboard EXCEPT !.awaiting = FALSE]
          /\ toasts' = toasts \cup {"Processing Complete!"}
     ELSE /\ dashboard' =
               IF dashboard.mounted
               THEN [dashboard EXCEPT !.awaiting = FALSE,
                                      !.isProcessing = FALSE]
               ELSE [dashboard EXCEPT !.awaiting = FALSE]
          /\ toasts' = toasts \cup {"Processing Failed"}
  /\ UNCHANGED <<processorVars, currentView, uploadedVideos, uploaders>>

\* the application: Index with the VideoUploader and the Dashboard
AppInit ==
  /\ ProcessorIdle
  /\ mimeSupported = TRUE
  /\ currentView = "landing"
  /\ uploadedVideos = <<>>
  /\ uploaders = <<>>
  /\ \E kind \in {"standard", "premium"} :
       /\ kind = "premium" => variant = "premium"
       /\ dashboard = [NoDashboard EXCEPT !.kind = kind]
  /\ toasts = {}

AppNext ==
  \/ GetStarted
  \/ UploaderBack
  \/ \E f \in {"video", "other", "large"} : HandleFiles(f)
  \/ \E u \in 1..MaxUploads : \E inc \in UploadIncrements : Tick(u, inc)
  \/ DashboardBack
  \/ DashboardEffect
  \/ MockTimerFires

AppSpec == AppInit /\ [][AppNext]_vars

\* videos a caller can hand to a Dashboard: none, one without and one with
\* its file
VideoInputs ==
  {<<>>, <<VideoData(1)>>, <<FileVideoData(1)>>,
   <<FileVideoData(1), VideoData(2)>>}

\* a Dashboard rendered with any videos by a caller that is not modelled
DashboardInit ==
  /\ ProcessorIdle
  /\ mimeSupported = TRUE
  /\ currentView = "dashboard"
  /\ uploadedVideos \in VideoInputs
  /\ uploaders = <<>>
  /\ \E kind \in {"standard", "premium"} :
       /\ kind = "premium" => variant = "premium"
       /\ dashboard = [NoDashboard EXCEPT
                         !.mounted = TRUE, !.kind = kind, !.mount = 1,
                         !.currentVideo = CurrentVideo(uploadedVideos),
                         !.isProcessing = TRUE]
  /\ toasts = {}

DashboardNext ==
  \/ DashboardEffect
  \/ MockTimerFires
  \/ DashboardBack
  \/ \E d \in DurationInputs : \E stream \in RandomStreams : Analyze(d, stream)
  \/ \E ok \in BOOLEAN : Extracted(ok)
  \/ Complete
  \/ VideoError
  \/ ProcessingSettled

DashboardSpec == DashboardInit /\ [][DashboardNext]_vars

(* ------------------------------ properties ---------------------------- *)
Zero == Int2Num(0)
\* the latest composite call ran on four positive dimensions
PositiveCall ==
  /\ lastDraw.called
  /\ lastDraw.videoWidth > 0 /\ lastDraw.videoHeight > 0
  /\ lastDraw.canvasWidth > 0 /\ lastDraw.canvasHeight > 0
\* sourceWidth / sourceHeight > targetWidth / targetHeight, in integers
SourceWider ==
  lastDraw.videoWidth * lastDraw.canvasHeight
    > lastDraw.canvasWidth * lastDraw.videoHeight
SourceSameAspect ==
  lastDraw.videoWidth * lastDraw.canvasHeight
    = lastDraw.canvasWidth * lastDraw.videoHeight
\* the focus value the caller passed to the latest call
PassedFocus ==
  IF lastDraw.reframeSettings.present
  THEN lastDraw.reframeSettings.focusPoint ELSE Undefined
\* offset and slack of the latest call on its crop axis
CropOffset ==
  IF lastDraw.result.branch = "wider"
  THEN lastDraw.result.offsetX ELSE lastDraw.result.offsetY
CropSlack ==
  IF lastDraw.result.branch = "wider"
  THEN NumSub(Int2Num(lastDraw.canvasWidth), lastDraw.result.drawWidth)
  ELSE NumSub(Int2Num(lastDraw.canvasHeight), lastDraw.result.drawHeight)
\* (target - draw) / 2 on the crop axis
CenterOffset == NumDiv(CropSlack, Int2Num(2))

\* C1: no letterboxing. For positive source and target dimensions and every
\* focus setting, in both revisions, the draw rectangle covers the canvas:
\* offsetX <= 0, offsetY <= 0, offsetX + drawWidth >= targetWidth,
\* offsetY + drawHeight >= targetHeight, drawWidth >= targetWidth and
\* drawHeight >= targetHeight.
NoLetterboxing ==
  PositiveCall =>
    LET r == lastDraw.result
        tw == Int2Num(lastDraw.canvasWidth)
        th == Int2Num(lastDraw.canvasHeight)
    IN  /\ NumLe(r.offsetX, Zero)
        /\ NumLe(r.offsetY, Zero)
        /\ NumGe(NumAdd(r.offsetX, r.drawWidth), tw)
        /\ NumGe(NumAdd(r.offsetY, r.drawHeight), th)
        /\ NumGe(r.drawWidth, tw)
        /\ NumGe(r.drawHeight, th)

\* a call with the action policy whose frame is cropped on both sides
NoLetterboxingWitness ==
  /\ PositiveCall
  /\ PassedFocus = "action"
  /\ NumLt(lastDraw.result.offsetX, Zero)
  /\ NumGt(NumAdd(lastDraw.result.offsetX, lastDraw.result.drawWidth),
           Int2Num(lastDraw.canvasWidth))

\* C2: when sourceWidth/sourceHeight > targetWidth/targetHeight the wider
\* branch is taken: drawHeight = targetHeight,
\* drawWidth = targetHeight * sourceWidth / sourceHeight >= targetWidth and
\* offsetY = 0.
WiderBranchGeometry ==
  (PositiveCall /\ SourceWider) =>
    LET r == lastDraw.result
    IN  /\ r.branch = "wider"
        /\ r.drawHeight = Int2Num(lastDraw.canvasHeight)
        /\ r.drawWidth = Frac(lastDraw.canvasHeight * lastDraw.videoWidth,
                              lastDraw.videoHeight)
        /\ NumGe(r.drawWidth, Int2Num(lastDraw.canvasWidth))
        /\ r.offsetY = Zero

\* a landscape frame drawn on a portrait canvas
WiderBranchWitness ==
  /\ PositiveCall /\ SourceWider
  /\ lastDraw.videoWidth > lastDraw.videoHeight
  /\ lastDraw.canvasWidth < lastDraw.canvasHeight
  /\ lastDraw.result.branch = "wider"

\* C3: when sourceWidth/sourceHeight <= targetWidth/targetHeight (equal
\* ratios included) the other branch is taken: drawWidth = targetWidth,
\* drawHeight = targetWidth * sourceHeight / sourceWidth >= targetHeight and
\* offsetX = 0; every call takes exactly one branch, the wider one exactly
\* when the source ratio is strictly larger.
TallerBranchGeometry ==
  PositiveCall =>
    LET r == lastDraw.result
    IN  /\ r.branch \in {"wider", "taller"}
        /\ (r.branch = "wider") <=> SourceWider
        /\ ~SourceWider =>
             /\ r.branch = "taller"
             /\ r.drawWidth = Int2Num(lastDraw.canvasWidth)
             /\ r.drawHeight = Frac(lastDraw.canvasWidth * lastDraw.videoHeight,
                                    lastDraw.videoWidth)
             /\ NumGe(r.drawHeight, Int2Num(lastDraw.canvasHeight))
             /\ r.offsetX = Zero

\* equal aspect ratios with different sizes: the frame fits the canvas exactly
TallerBranchWitness ==
  /\ PositiveCall /\ SourceSameAspect
  /\ lastDraw.videoWidth # lastDraw.canvasWidth
  /\ lastDraw.videoWidth # lastDraw.videoHeight
  /\ lastDraw.result.branch = "taller"
  /\ lastDraw.result.drawHeight = Int2Num(lastDraw.canvasHeight)

\* C4: with focus 'center' the crop-axis offset is the exact midpoint:
\* 2 * offsetX = targetWidth - drawWidth in the wider branch and
\* 2 * offsetY = targetHeight - drawHeight in the other one.
CenterIsMidpoint ==
  (PositiveCall /\ PassedFocus = "center") =>
    LET r == lastDraw.result
    IN  IF r.branch = "wider"
        THEN NumMul(Int2Num(2), r.offsetX)
               = NumSub(Int2Num(lastDraw.canvasWidth), r.drawWidth)
        ELSE NumMul(Int2Num(2), r.offsetY)
               = NumSub(Int2Num(lastDraw.canvasHeight), r.drawHeight)

\* a centred call of the wider branch that crops
CenterIsMidpointWitness ==
  /\ PositiveCall /\ PassedFocus = "center"
  /\ lastDraw.result.branch = "wider"
  /\ NumLt(lastDraw.result.offsetX, Zero)

\* C5 as stated: for every positive source/target pair the face and action
\* offsets on the crop axis satisfy 0 < |offset| < |center offset|.
FocusStrictlyInside ==
  (PositiveCall /\ PassedFocus \in {"face", "action"}) =>
    /\ NumGt(NumAbs(CropOffset), Zero)
    /\ NumLt(NumAbs(CropOffset), NumAbs(CenterOffset))

\* C5 amended: whenever the center offset on the crop axis is nonzero, the
\* face and action offsets satisfy 0 < |offset| < |center offset|; when the
\* center offset is 0 (nothing is cropped) the face and action offsets are 0
\* as well.
FocusInsideUnlessSameAspect ==
  (PositiveCall /\ PassedFocus \in {"face", "action"}) =>
    IF CenterOffset = Zero
    THEN CropOffset = Zero
    ELSE /\ NumGt(NumAbs(CropOffset), Zero)
         /\ NumLt(NumAbs(CropOffset), NumAbs(CenterOffset))

\* a face call of the other branch that crops top and bottom
FocusInsideWitness ==
  /\ PositiveCall /\ PassedFocus = "face"
  /\ ~SourceSameAspect
  /\ lastDraw.result.branch = "taller"
  /\ NumLt(lastDraw.result.offsetY, Zero)

\* the inputs of two composite calls agree
SameInputs(a, b) ==
  /\ a.videoWidth = b.videoWidth /\ a.videoHeight = b.videoHeight
  /\ a.canvasWidth = b.canvasWidth /\ a.canvasHeight = b.canvasHeight
  /\ a.reframeSettings = b.reframeSettings

ZeroDimensionRejected ==
  (lastDraw.called /\ (lastDraw.videoWidth = 0 \/ lastDraw.videoHeight = 0
                       \/ lastDraw.canvasWidth = 0 \/ lastDraw.canvasHeight = 0)) =>
    /\ lastDraw.error = "InvalidDimension"
    /\ lastDraw.ops = <<>>

\* C8: a focus value outside {center, face, action}, a missing focusPoint
\* and missing reframeSettings are treated as center: the crop-axis offset
\* is (target - draw) / 2, the other offset is 0 and no error is raised.
FocusFallsBackToCenter ==
  (lastDraw.called /\ PassedFocus \notin FocusPolicies) =>
    /\ CropOffset = CenterOffset
    /\ lastDraw.result.branch = "wider" => lastDraw.result.offsetY = Zero
    /\ lastDraw.result.branch = "taller" => lastDraw.result.offsetX = Zero
    /\ lastDraw.error = "none"

\* a call without reframeSettings that crops the sides
FocusFallbackWitness ==
  /\ PositiveCall
  /\ ~lastDraw.reframeSettings.present
  /\ lastDraw.result.branch = "wider"
  /\ NumLt(lastDraw.result.offsetX, Zero)

\* the tables of the specification: base size and ratio per aspect preset,
\* scale (as numerator, denominator) and Mbps per quality
BaseSize(a) ==
  CASE a = "9:16" -> <<720, 1280>> [] a = "16:9" -> <<1280, 720>>
    [] a = "1:1" -> <<1080, 1080>> [] a = "4:5" -> <<1080, 1350>>
PresetRatio(a) ==
  CASE a = "9:16" -> <<9, 16>> [] a = "16:9" -> <<16, 9>>
    [] a = "1:1" -> <<1, 1>> [] a = "4:5" -> <<4, 5>>
QualityScale(q) ==
  CASE q = "HD" -> <<1, 1>> [] q = "FHD" -> <<3, 2>> [] q = "4K" -> <<2, 1>>
QualityMbps(q) ==
  CASE q = "HD" -> 3 [] q = "FHD" -> 5 [] q = "4K" -> 8
\* width x height is the base size of preset a scaled for quality q
IsScaledBase(width, height, a, q) ==
  /\ width * QualityScale(q)[2] = BaseSize(a)[1] * QualityScale(q)[1]
  /\ height * QualityScale(q)[2] = BaseSize(a)[2] * QualityScale(q)[1]
\* the first extraction of a premium run has sized the canvas
CanvasSized ==
  variant = "premium" /\ nClips > 0
  /\ pc \in {"extracting", "finishing", "voice", "done"}

\* C9: for every aspect preset and quality the canvas of a premium run is
\* (baseWidth * m, baseHeight * m) with m = 1, 1.5, 2 for HD, FHD, 4K; both
\* sides are positive integers and width : height is the preset's ratio.
CanvasFromTable ==
  (/\ CanvasSized
   /\ options.reframeSettings.present
   /\ options.reframeSettings.aspectRatio \in AspectPresets
   /\ options.quality \in Qualities) =>
    LET a == options.reframeSettings.aspectRatio
    IN  /\ canvas.width \in Nat \ {0}
        /\ canvas.height \in Nat \ {0}
        /\ IsScaledBase(canvas.width, canvas.height, a, options.quality)
        /\ canvas.width * PresetRatio(a)[2] = canvas.height * PresetRatio(a)[1]

\* 4K with 1:1 gives a canvas of 2160 x 2160
CanvasFromTableWitness ==
  /\ CanvasSized
  /\ options.quality = "4K"
  /\ options.reframeSettings.present
  /\ options.reframeSettings.aspectRatio = "1:1"
  /\ canvas.width = 2160 /\ canvas.height = 2160

\* C10: the recorder of every clip of a premium run gets 3, 5 or 8 Mbps for
\* HD, FHD, 4K, and the canvas it records was sized for the same quality;
\* with options.quality left out both are those of FHD.
BitrateMatchesCanvas ==
  \A i \in Clips :
    (variant = "premium" /\ recorder[i].state # "none") =>
      LET q == IF options.quality = Undefined THEN "FHD" ELSE options.quality
          a == IF options.reframeSettings.present
               THEN options.reframeSettings.aspectRatio ELSE "9:16"
      IN  /\ recorder[i].videoBitsPerSecond = QualityMbps(q) * 1000000
          /\ IsScaledBase(recorder[i].width, recorder[i].height, a, q)
          /\ canvas.width = recorder[i].width
          /\ canvas.height = recorder[i].height

\* a recorder made without options.quality: 5 Mbps on a 1080 x 1920 canvas
BitrateMatchesCanvasWitness ==
  /\ variant = "premium"
  /\ options.quality = Undefined
  /\ recorder[1].state = "recording"
  /\ recorder[1].videoBitsPerSecond = 5000000
  /\ recorder[1].width = 1080 /\ recorder[1].height = 1920

\* capture loops whose recordFrame chain is alive: each frame they make a
\* composite call on the processor's canvas
DrawingLoops == {i \in Clips : loop[i] = "running"}

\* C11 as stated: composite calls on the shared canvas are serialized: at
\* any time at most one capture loop is drawing, the loop of one clip having
\* stopped before the extraction of the next clip starts drawing.
LoopsSerialized == Cardinality(DrawingLoops) <= 1

\* C12 as stated: no state is carried from one composite call to the next:
\* a later call with the inputs of the first call on the canvas performs the
\* same drawing operations under the same context settings (fill style,
\* smoothing, shadow colour and blur).
NoCarriedState ==
  (lastDraw.called /\ firstDraw.called /\ SameInputs(lastDraw, firstDraw)) =>
    lastDraw.ops = firstDraw.ops

\* C13: every composite call fills the whole canvas with opaque black, then
\* draws the frame at (offsetX, offsetY) with size (drawWidth, drawHeight),
\* then applies the vignette, in this order and in the same call.
ClearDrawVignette ==
  lastDraw.called =>
    LET ops == lastDraw.ops
        r == lastDraw.result
        whole == <<0, 0, lastDraw.canvasWidth, lastDraw.canvasHeight>>
    IN  /\ Len(ops) = 3
        /\ ops[1].op = "fillRect" /\ ops[1].args = whole
        /\ ops[1].ctx.fillStyle = "#000000"
        /\ ops[2].op = "drawImage"
        /\ ops[2].args = <<r.offsetX, r.offsetY, r.drawWidth, r.drawHeight>>
        /\ ops[3].op = "fillRect" /\ ops[3].args = whole
        /\ ops[3].ctx.fillStyle \in {"vignette(0.7,0.15)", "vignette(0,0.1)"}

\* a later call of a premium extraction: the canvas still shows the frame
\* and the vignette of the call before when it is cleared
ClearDrawVignetteWitness ==
  /\ PositiveCall /\ frames >= 2
  /\ variant = "premium"
  /\ lastDraw.painted
  /\ lastDraw.ops[1].ctx.shadowBlur = 2
  /\ lastDraw.ops[2].op = "drawImage"

\* the extraction of clip i has started: its recorder is recording
Started(i) == recorder[i].state = "recording"

\* the extraction of clip i is over: recorder stopped, promise settled
Settled(i) == recorder[i].state = "inactive" /\ Len(processed) >= i

LeftEdgeUnder(f) ==
  LET r == Reframe(variant, lastDraw.videoWidth, lastDraw.videoHeight,
                   lastDraw.canvasWidth, lastDraw.canvasHeight,
                   [present |-> TRUE, aspectRatio |-> "9:16", focusPoint |-> f])
  IN  NumDiv(NumMul(NumSub(Zero, r.offsetX), Int2Num(lastDraw.videoWidth)),
             r.drawWidth)

\* C15 as stated: in the wider branch a smaller bias moves the visible
\* window rightward: the left edge under face lies to the right of that under
\* action, which lies to the right of that under center.
SmallerBiasMovesRight ==
  (PositiveCall /\ SourceWider) =>
    /\ NumGt(LeftEdgeUnder("face"), LeftEdgeUnder("action"))
    /\ NumGt(LeftEdgeUnder("action"), LeftEdgeUnder("center"))

\* C15 amended: in the wider branch a smaller bias moves the visible window
\* leftward: the left edge under face lies to the left of that under action,
\* which lies to the left of that under center, and none lies left of the
\* source's own left edge.
SmallerBiasMovesLeft ==
  (PositiveCall /\ SourceWider) =>
    /\ NumGt(LeftEdgeUnder("face"), Zero)
    /\ NumLt(LeftEdgeUnder("face"), LeftEdgeUnder("action"))
    /\ NumLt(LeftEdgeUnder("action"), LeftEdgeUnder("center"))

\* a wider frame composited under the face policy, whose window starts left
\* of the centred one
SmallerBiasWitness ==
  /\ PositiveCall /\ SourceWider
  /\ PassedFocus = "face"
  /\ lastDraw.result.branch = "wider"
  /\ NumLt(NumMul(NumSub(Zero, lastDraw.result.offsetX),
                  Int2Num(lastDraw.videoWidth)),
           NumMul(LeftEdgeUnder("center"), lastDraw.result.drawWidth))

\* position of a stage in the pipeline
StageRank(stage) ==
  CASE stage = "initialization" -> 1
    [] stage = "analysis" -> 2
    [] stage = "generation" -> 3
    [] stage = "captions" -> 4
    [] stage = "voice" -> 5
    [] stage = "complete" -> 6

Reported(stage) == \E j \in 1..Len(progress) : progress[j].stage = stage

\* the events reported so far follow the stage order, the optional stages
\* appear only when switched on, and 'complete' comes after the three
\* mandatory stages
StagesInOrder ==
  /\ \A j \in 1..Len(progress) : \A k \in j..Len(progress) :
       StageRank(progress[j].stage) <= StageRank(progress[k].stage)
  /\ Reported("captions") => options.generateCaptions
  /\ Reported("voice") => options.generateVoice /\ options.voiceSettings
  /\ Reported("complete") =>
       /\ Reported("initialization") /\ Reported("analysis")
       /\ Reported("generation")
       /\ options.generateCaptions => Reported("captions")

\* 'complete' is reported at most once and nothing follows it
CompleteOnceAndLast ==
  \A j \in 1..Len(progress) :
    progress[j].stage = "complete" => j = Len(progress)

\* C16 as stated: the progress events of a run follow the stage order
\* initialization, analysis, generation, captions (only if generateCaptions),
\* voice (only if generateVoice and voiceSettings), complete; 'complete' is
\* reported exactly once and last, and it is reported if and only if the
\* returned promise resolves.
CompleteIffResolved ==
  /\ StagesInOrder
  /\ CompleteOnceAndLast
  /\ Reported("complete") <=> promise = "resolved"

\* C17: the progress values of a run are non-decreasing and within 0..100,
\* and the value 100 is reported only with stage 'complete'.
ProgressMonotone ==
  \A j \in 1..Len(progress) :
    /\ NumGe(progress[j].progress, Zero)
    /\ NumLe(progress[j].progress, Int2Num(100))
    /\ progress[j].progress = Int2Num(100) => progress[j].stage = "complete"
    /\ \A k \in j..Len(progress) :
         NumLe(progress[j].progress, progress[k].progress)

\* a finished premium run over two clips with every stage on: per-clip
\* values were reported in the analysis, generation, captions and voice stages
ProgressMonotoneWitness ==
  /\ pc = "done" /\ variant = "premium" /\ nClips = 2
  /\ Reported("captions") /\ Reported("voice")
  /\ \E j \in 1..Len(progress) :
       progress[j].stage = "voice" /\ NumGt(progress[j].progress, Int2Num(85))
  /\ progress[Len(progress)] = CompleteEvent

Ids(cs) == [k \in 1..Len(cs) |-> cs[k].id]

\* min(6, floor(d / 15)) for the duration of the video, in integers
ExpectedCount ==
  LET q == video.duration[1] \div (15 * video.duration[2])
  IN  IF q < 6 THEN q ELSE 6

\* C18: for a video of finite duration d >= 0 a resolved premium
\* processVideo returns exactly min(6, floor(d / 15)) clips with pairwise
\* distinct ids, ordered by engagementScore non-increasing; the generation,
\* caption and voice stages neither add, drop nor reorder clips (the clips
\* processed so far are, in order, the first clips of the analysis).
ClipsReturned ==
  (variant = "premium" /\ IsFinite(video.duration)) =>
    /\ Len(processed) <= Len(clips)
    /\ Ids(processed) = SubSeq(Ids(clips), 1, Len(processed))
    /\ (pc = "done" /\ promise = "resolved") =>
         /\ Len(processed) = ExpectedCount
         /\ \A j, k \in 1..Len(processed) :
              j < k => /\ processed[j].id # processed[k].id
                       /\ NumGe(processed[j].engagementScore,
                                processed[k].engagementScore)

\* a resolved premium run over a video long enough for more than six clips,
\* whose returned order differs from the order of generation, with a failed
\* extraction and a failed voice call on the way
ClipsReturnedWitness ==
  /\ variant = "premium" /\ pc = "done" /\ promise = "resolved"
  /\ video.duration = Int2Num(200)
  /\ Len(processed) = 6
  /\ processed[1].id # <<"premium-clip-", 1>>
  /\ \E k \in 1..6 : ~processed[k].blob
  /\ \E k \in 1..6 : processed[k].captions /\ ~processed[k].audioBlob

\* index (from 0) at which the analysis loop generated the clip
GenerationIndex(clip) == clip.id[2] - 1

\* the clip lies inside the video and has the length of the table
InsideWithNominalLength(clip) ==
  /\ NumGe(clip.startTime, Zero)
  /\ clip.endTime = NumAdd(clip.startTime, clip.duration)
  /\ NumLe(clip.endTime, video.duration)
  /\ clip.duration =
       Int2Num(clipDurations[(GenerationIndex(clip) % Len(clipDurations)) + 1])

\* C19 as stated: every clip of the premium analysis lies inside the video
\* and has its nominal length: 0 <= startTime, endTime = startTime + duration
\* <= video duration, and duration = [15, 30, 45, 60][i mod 4] for its
\* generation index i.
ClipsInsideVideo ==
  variant = "premium" =>
    \A k \in 1..Len(clips) : InsideWithNominalLength(clips[k])

\* the same for the videos whose duration is a finite number
ClipsInsideFiniteVideo ==
  (variant = "premium" /\ IsFinite(video.duration)) =>
    \A k \in 1..Len(clips) : InsideWithNominalLength(clips[k])

\* C20: a failure while extracting one clip does not fail the run: the clip
\* is pushed as analysed, without blob, in the step in which its recorder
\* fails, the run goes on, at its end as many clips are returned as were
\* analysed, in the same order, and the promise is rejected in no step other
\* than a video error.
ExtractionFailureKept ==
  /\ [](pc \in {"finishing", "voice", "done"} =>
          /\ Len(processed) = Len(clips)
          /\ Ids(processed) = Ids(clips))
  /\ [](pc = "done" => promise \in {"resolved", "rejected"})
  /\ [][(promise' = "rejected" /\ promise # "rejected") => VideoError]_vars
  /\ [][\A i \in Clips :
          (Pending(i) /\ RecorderError(i)) =>
            /\ Len(processed') >= i
            /\ processed'[i] = clips[i]
            /\ ~processed'[i].blob
            /\ promise' = promise
            /\ pc' \in {"extracting", "finishing"}]_vars

\* a resolved run over two clips: the extraction of the first failed, the
\* second was extracted, both are returned
ExtractionFailureWitness ==
  /\ pc = "done" /\ promise = "resolved"
  /\ nClips = 2 /\ Len(processed) = 2
  /\ ~processed[1].blob /\ processed[2].blob
  /\ recorder[1].state = "inactive" /\ recorder[2].state = "inactive"

\* number of words of a caption text: its spaces plus one
WordCount(text) == Cardinality({k \in 1..Len(text) : text[k] = " "}) + 1

\* the latest caption generator call was one of generatePremiumOpusCaptions
PremiumCaptionCall == captionCall.called /\ variant = "premium"

CaptionStyleByKeyword ==
  PremiumCaptionCall =>
    \A k \in 1..Len(captionCall.captions) :
      LET c == captionCall.captions[k]
      IN  c.style =
            IF \/ Includes(c.text, SECRET) \/ Includes(c.text, TRUTH)
               \/ Includes(c.text, NEVER)
            THEN "highlight"
            ELSE IF \/ Includes(c.text, IMPORTANT) \/ Includes(c.text, CHANGES)
                    \/ Includes(c.text, REVOLUTIONARY)
                 THEN "emphasis"
                 ELSE "normal"

\* the clips after clip k that have at least one caption
LaterCaptioned(k) == {j \in (k + 1)..Len(processed) : processed[j].captions}

\* a voice request settles in this step
VoiceStep == pc = "voice" /\ <<processed, pc, voiceAt>>' # <<processed, pc, voiceAt>>

\* C23: voiceover generation is isolated per clip: only a clip with a
\* caption has an audioBlob, and it gets it in the step in which its own
\* request succeeds; a request that fails leaves every clip as it was; after
\* either outcome the next clip with captions is attempted, and when none is
\* left the run ends resolved (unless the video failed before) with all clips.
VoiceIsolated ==
  /\ [](\A k \in 1..Len(processed) :
          processed[k].audioBlob => processed[k].captions)
  /\ [](pc = "done" => Len(processed) = Len(clips))
  /\ [][\A k \in 1..Len(processed) :
          (Len(processed') >= k /\ processed'[k].audioBlob
             /\ ~processed[k].audioBlob)
            => pc = "voice" /\ k = voiceAt]_vars
  /\ [][VoiceStep =>
          /\ \/ processed' = processed
             \/ processed' = [processed EXCEPT ![voiceAt].audioBlob = TRUE]
          /\ IF LaterCaptioned(voiceAt) # {}
             THEN /\ pc' = "voice"
                  /\ voiceAt' \in LaterCaptioned(voiceAt)
                  /\ \A j \in LaterCaptioned(voiceAt) : voiceAt' <= j
             ELSE /\ pc' = "done"
                  /\ promise' = IF promise = "pending" THEN "resolved"
                                ELSE promise]_vars

\* a resolved run in which the voice request of the first clip failed and
\* that of the second succeeded
VoiceIsolatedWitness ==
  /\ pc = "done" /\ promise = "resolved"
  /\ Len(processed) >= 2
  /\ processed[1].captions /\ ~processed[1].audioBlob
  /\ processed[2].captions /\ processed[2].audioBlob

\* C24: a recorder is stopped at most once: no capture loop calls
\* mediaRecorder.stop() on a recorder that is no longer recording (the call
\* that does throws, which ends the loop as "crashed").
StoppedOnlyWhileRecording == \A i \in DOMAIN loop : loop[i] # "crashed"

\* 0 <= startTime <= endTime <= d and duration = endTime - startTime > 0
InsideVideo(clip) ==
  /\ NumGe(clip.startTime, Zero)
  /\ NumLe(clip.startTime, clip.endTime)
  /\ NumLe(clip.endTime, video.duration)
  /\ clip.duration = NumSub(clip.endTime, clip.startTime)
  /\ NumGt(clip.duration, Zero)

\* C30: in the earlier variants every clip analysed for a video of (finite)
\* duration d >= 30 lies inside the video: 0 <= startTime <= endTime <= d and
\* duration = endTime - startTime > 0.
EarlierClipsInsideVideo ==
  (variant = "standard" /\ IsFinite(video.duration)
     /\ NumGe(video.duration, Int2Num(30))) =>
    \A k \in 1..Len(clips) : InsideVideo(clips[k])

\* the same for the videos of at least 60 seconds
EarlierClipsInsideLongVideo ==
  (variant = "standard" /\ IsFinite(video.duration)
     /\ NumGe(video.duration, Int2Num(60))) =>
    \A k \in 1..Len(clips) : InsideVideo(clips[k])

\* processVideoFile resumes after its await in this step
SettledStep == dashboard.awaiting /\ ~dashboard'.awaiting

\* C25: in the Dashboard, when the processVideo promise has settled
\* processVideoFile sets isProcessing to false: after a resolution
\* generatedShorts is the returned clips, after a rejection generatedShorts
\* is unchanged and 'Processing Failed' is raised; within one mount
\* isProcessing never returns to true.
ProcessingSettlesDashboard ==
  /\ [][SettledStep =>
          /\ promise \in {"resolved", "rejected"}
          /\ dashboard.mounted => ~dashboard'.isProcessing
          /\ (promise = "resolved" /\ dashboard.mounted) =>
               dashboard'.generatedShorts = processed
          /\ promise = "rejected" =>
               /\ dashboard'.generatedShorts = dashboard.generatedShorts
               /\ "Processing Failed" \in toasts']_vars
  /\ [](dashboard.awaiting => dashboard.isProcessing \/ ~dashboard.mounted)
  /\ []((dashboard.mounted /\ dashboard.effectRan /\ dashboard.currentVideo.file
           /\ ~dashboard.awaiting) => ~dashboard.isProcessing)
  /\ [][(~dashboard.isProcessing /\ dashboard'.mount = dashboard.mount) =>
          ~dashboard'.isProcessing]_vars

\* a mounted Dashboard whose run resolved with two clips or more
ProcessingSettlesWitness ==
  /\ dashboard.mounted /\ dashboard.effectRan /\ ~dashboard.awaiting
  /\ promise = "resolved"
  /\ Len(processed) >= 2
  /\ dashboard.generatedShorts = processed
  /\ ~dashboard.isProcessing

\* C26: every video delivered by VideoUploader has no file, so the Dashboard
\* never calls processVideo for it but sets its timer, and once the timer
\* has fired in the mounted Dashboard generatedShorts is the fixed mock list,
\* the progress is 100 and isProcessing is false.
UploadsTakeMockBranch ==
  /\ [](pc = "idle" /\ promise = "none")
  /\ [](\A k \in 1..Len(uploadedVideos) : ~uploadedVideos[k].file)
  /\ [](dashboard.effectRan => dashboard.timer # "none" /\ ~dashboard.awaiting)
  /\ []((dashboard.mounted /\ dashboard.timer = "fired") =>
          /\ dashboard.generatedShorts = MockShorts(dashboard.kind)
          /\ Len(dashboard.generatedShorts) =
               IF dashboard.kind = "premium" THEN 2 ELSE 3
          /\ dashboard.processingProgress = 100
          /\ ~dashboard.isProcessing)

\* the Dashboard of an uploaded video after its timer
UploadsTakeMockBranchWitness ==
  /\ currentView = "dashboard"
  /\ Len(uploadedVideos) >= 1
  /\ dashboard.mounted /\ dashboard.timer = "fired"
  /\ dashboard.generatedShorts = MockShorts(dashboard.kind)

UploadProgressInRange ==
  \A u \in 1..Len(uploaders) :
    /\ uploaders[u].uploadProgress >= 0
    /\ uploaders[u].uploadProgress <= 100
    /\ uploaders[u].completions <= 1
    /\ uploaders[u].completions = 1 => uploaders[u].uploadProgress = 100

\* the part of C28 about onUploadComplete
CompletedOnce ==
  \A u \in 1..Len(uploaders) :
    /\ uploaders[u].completions <= 1
    /\ uploaders[u].completions = 1 <=> uploaders[u].interval = "cleared"
    /\ uploaders[u].completions = 1 => uploaders[u].uploadProgress = 100

\* C29: the Dashboard's current video is the first element of
\* uploadedVideos, which only grows at its end: also after two uploads the
\* Dashboard shows and processes the first video.
CurrentVideoIsFirst ==
  /\ [](dashboard.mount > 0 =>
          /\ uploadedVideos # <<>>
          /\ dashboard.currentVideo = uploadedVideos[1]
          /\ dashboard.currentVideo.id = 1)
  /\ [][uploadedVideos' # uploadedVideos =>
          /\ Len(uploadedVideos') = Len(uploadedVideos) + 1
          /\ SubSeq(uploadedVideos', 1, Len(uploadedVideos)) = uploadedVideos
          /\ uploadedVideos'[Len(uploadedVideos')].id = Len(uploadedVideos')]_vars

\* the Dashboard after the second upload, its effect run
CurrentVideoIsFirstWitness ==
  /\ Len(uploadedVideos) = 2
  /\ uploadedVideos[2].id = 2
  /\ currentView = "dashboard"
  /\ dashboard.mounted /\ dashboard.mount = 2 /\ dashboard.effectRan
  /\ dashboard.currentVideo.id = 1

====
